---- MODULE Spec2Model ----
(***************************************************************************)
(* FamBudget: the monthly rollover of useBudget (src/src/hooks/            *)
(* useBudget.ts) and the schedule projection of useBalances                *)
(* (calculateCurrentBalance).                                              *)
(*                                                                         *)
(* Month keys are JavaScript strings; they are modelled as sequences of    *)
(* one-character strings so that split, parseInt, Number, the Date         *)
(* constructor and padStart are computed as the code computes them.        *)
(* Money is counted in whole currency units.                               *)
(*                                                                         *)
(* One await of the code is one step of the model.  The selects that one   *)
(* Promise.all issues together are answered from one snapshot of the       *)
(* store.  Rows returned by a select are sequences ordered by created_at   *)
(* (rows of one insert statement share created_at and are ordered by id).  *)
(***************************************************************************)
EXTENDS Integers, Sequences, FiniteSets, TLC

VARIABLES
    db,                   \* the remote store: one set of rows per table
    nextId,               \* source of row ids and of created_at stamps
    selectedMonth,        \* App's selectedMonth, the argument of useBudget
    incomes,              \* useBudget state: rows shown
    taxes,
    expenses,
    unnecessaryExpenses,
    loading,
    error,
    isCarryingOver,
    carriedOverMonths,    \* useRef<Set<string>>: months auto-carried in this session
    calls,                \* the asynchronous calls of the session, in start order
    failures,             \* number of store requests that returned an error
    db0,                  \* history: the store when the session started
    account,              \* BalanceTracker: the account projected
    selectedViewMonth,    \* BalanceTracker: the month viewed
    projectedBalance,     \* BalanceTracker: calculateCurrentBalance for the view
    paidExpenses,         \* BalanceTracker: the paidExpenses prop
    actualBalance,        \* BalanceTracker: getActualBalanceForMonth for the view
    progressPercentage,   \* BalanceTracker: the progress bar of the account card
    monthKey,             \* month utilities: the key they are given
    previousOfKey,        \* month utilities: getPreviousMonth(monthKey)
    keyBalance,           \* month utilities: calculateCurrentBalance from monthKey
    previousMonthExpenses, \* CarryOverExpenses: the previousMonthExpenses prop
    showDialog,           \* CarryOverExpenses state
    selectedExpenses,
    submitting,
    carryRequests,        \* history: the id sets handed to onCarryOver, in order
    lastHandler,          \* history: the handler of CarryOverExpenses that ran last
    balanceStore,         \* the remote store: balance accounts, their history, and
                          \* the expenses that may reference an account
    balanceNextId,        \* source of the ids of new balance accounts
    accounts,             \* useBalances state
    history,
    balancesLoading,
    balancesError,
    balanceCalls,         \* the asynchronous calls of useBalances, in start order
    balanceFailures,      \* number of requests of useBalances that returned an error
    balanceStore0,        \* history: balanceStore when the session started
    peer                  \* a second session on the same store: its useBudget
                          \* state and the position of its opening load

vars == <<db, nextId, selectedMonth, incomes, taxes, expenses, unnecessaryExpenses,
          loading, error, isCarryingOver, carriedOverMonths, calls, failures, db0,
          account, selectedViewMonth, projectedBalance, paidExpenses, actualBalance,
          progressPercentage, monthKey, previousOfKey, keyBalance,
          previousMonthExpenses, showDialog, selectedExpenses, submitting, carryRequests,
          lastHandler, balanceStore, balanceNextId, accounts, history, balancesLoading,
          balancesError, balanceCalls, balanceFailures, balanceStore0, peer>>

budgetVars == <<db, nextId, selectedMonth, incomes, taxes, expenses, unnecessaryExpenses,
                loading, error, isCarryingOver, carriedOverMonths, calls, failures, db0>>

balanceVars == <<account, selectedViewMonth, projectedBalance, paidExpenses, actualBalance,
                 progressPercentage>>

monthVars == <<monthKey, previousOfKey, keyBalance>>

dialogVars == <<previousMonthExpenses, showDialog, selectedExpenses, submitting,
                carryRequests, lastHandler>>

accountVars == <<balanceStore, balanceNextId, accounts, history, balancesLoading,
                 balancesError, balanceCalls, balanceFailures, balanceStore0>>

\* what the actions of useBudget leave alone
outsideBudget == <<balanceVars, monthVars, dialogVars, accountVars, peer>>

\* what the actions of BalanceTracker leave alone
outsideBalance == <<budgetVars, monthVars, dialogVars, accountVars, peer>>

\* what the month utilities leave alone
outsideMonth == <<budgetVars, balanceVars, dialogVars, accountVars, peer>>

\* what the handlers of CarryOverExpenses leave alone
outsideDialog == <<budgetVars, balanceVars, monthVars, accountVars, peer>>

\* what the actions of useBalances leave alone
outsideAccounts == <<budgetVars, balanceVars, monthVars, dialogVars, peer>>

\* what the opening load of the second session leaves alone
outsidePeer == <<selectedMonth, incomes, taxes, expenses, unnecessaryExpenses, loading,
                 error, isCarryingOver, carriedOverMonths, calls, db0, balanceVars,
                 monthVars, dialogVars, accountVars>>

----------------------------------------------------------------------------
(* Bounds *)

MaxCalls == 3        \* calls one session starts (the mount fetch included)
MaxInFlight == 2     \* calls awaiting the store at the same time
MaxFailures == 1     \* store requests that fail in one behaviour
MaxPaid == 3         \* expenses in the list BalanceTracker is given
MaxRequests == 1     \* carry-overs one dialog hands to onCarryOver

----------------------------------------------------------------------------
(* JavaScript strings, numbers and dates *)

NaN == -999999

Digits == {"0", "1", "2", "3", "4", "5", "6", "7", "8", "9"}

DigitVal(c) ==
    CASE c = "0" -> 0 [] c = "1" -> 1 [] c = "2" -> 2 [] c = "3" -> 3 [] c = "4" -> 4
      [] c = "5" -> 5 [] c = "6" -> 6 [] c = "7" -> 7 [] c = "8" -> 8 [] c = "9" -> 9

DigitChar(d) ==
    CASE d = 0 -> "0" [] d = 1 -> "1" [] d = 2 -> "2" [] d = 3 -> "3" [] d = 4 -> "4"
      [] d = 5 -> "5" [] d = 6 -> "6" [] d = 7 -> "7" [] d = 8 -> "8" [] d = 9 -> "9"

\* s.split('-'): the pieces of s between the dashes
RECURSIVE SplitDash(_)
SplitDash(s) ==
    IF \A i \in 1..Len(s) : s[i] # "-"
    THEN <<s>>
    ELSE LET i == CHOOSE j \in 1..Len(s) :
                      s[j] = "-" /\ \A k \in 1..(j - 1) : s[k] # "-"
         IN  <<SubSeq(s, 1, i - 1)>> \o SplitDash(SubSeq(s, i + 1, Len(s)))

\* destructuring [a, b] = parts: a missing element is undefined
Undefined == <<"undefined">>

Part(parts, i) == IF i <= Len(parts) THEN parts[i] ELSE Undefined

\* value of a string of decimal digits
RECURSIVE DigitsValue(_)
DigitsValue(s) ==
    IF s = <<>> THEN 0 ELSE 10 * DigitsValue(SubSeq(s, 1, Len(s) - 1)) + DigitVal(s[Len(s)])

\* the longest prefix of s made of digits
RECURSIVE DigitPrefix(_)
DigitPrefix(s) ==
    IF s = <<>> \/ s[1] \notin Digits THEN <<>> ELSE <<s[1]>> \o DigitPrefix(Tail(s))

\* parseInt(s): the leading digits, NaN when there are none
ParseInt(s) ==
    IF s = Undefined \/ DigitPrefix(s) = <<>> THEN NaN ELSE DigitsValue(DigitPrefix(s))

\* Number(s): the whole string must be digits; Number('') is 0, Number(undefined) is NaN
ToNumber(s) ==
    IF s = Undefined THEN NaN
    ELSE IF \A i \in 1..Len(s) : s[i] \in Digits THEN DigitsValue(s) ELSE NaN

InvalidDate == [valid |-> FALSE, year |-> 0, month |-> 0]

\* floor division and modulus for a positive divisor
FloorDiv(a, b) == IF a >= 0 THEN a \div b ELSE -((-a + b - 1) \div b)

FloorMod(a, b) == a - b * FloorDiv(a, b)

\* new Date(year, monthIndex, 1): months outside 0..11 roll the year, years 0..99 are 1900+
MakeDate(year, monthIndex) ==
    IF year = NaN \/ monthIndex = NaN THEN InvalidDate
    ELSE LET y == IF year >= 0 /\ year <= 99 THEN 1900 + year ELSE year
         IN  [valid |-> TRUE,
              year  |-> y + FloorDiv(monthIndex, 12),
              month |-> FloorMod(monthIndex, 12)]

GetFullYear(d) == IF d.valid THEN d.year ELSE NaN

GetMonth(d) == IF d.valid THEN d.month ELSE NaN

\* date.setMonth(monthIndex)
SetMonth(d, monthIndex) ==
    IF ~d.valid \/ monthIndex = NaN THEN InvalidDate
    ELSE [valid |-> TRUE,
          year  |-> d.year + FloorDiv(monthIndex, 12),
          month |-> FloorMod(monthIndex, 12)]

\* String(n) for a number
RECURSIVE NatToString(_)
NatToString(n) ==
    IF n < 10 THEN <<DigitChar(n)>> ELSE NatToString(n \div 10) \o <<DigitChar(n % 10)>>

NumToString(n) ==
    IF n = NaN THEN <<"N", "a", "N">>
    ELSE IF n < 0 THEN <<"-">> \o NatToString(-n) ELSE NatToString(n)

\* s.padStart(2, '0')
PadStart2(s) == IF Len(s) >= 2 THEN s ELSE IF Len(s) = 1 THEN <<"0">> \o s ELSE <<"0", "0">>

Plus(a, b) == IF a = NaN \/ b = NaN THEN NaN ELSE a + b

\* `${date.getFullYear()}-${String(date.getMonth() + 1).padStart(2, '0')}`
FormatYearMonth(d) ==
    NumToString(GetFullYear(d)) \o <<"-">> \o PadStart2(NumToString(Plus(GetMonth(d), 1)))

\* getPreviousMonth with setMonth moving forward
getPreviousMonthForward(month) ==
    LET parts == SplitDash(month)
        date  == MakeDate(ParseInt(Part(parts, 1)), Plus(ParseInt(Part(parts, 2)), -1))
        prev  == SetMonth(date, Plus(GetMonth(date), 1))
    IN  FormatYearMonth(prev)

\* getPreviousMonth without padStart
getPreviousMonthUnpadded(month) ==
    LET parts == SplitDash(month)
        date  == MakeDate(ParseInt(Part(parts, 1)), Plus(ParseInt(Part(parts, 2)), -1))
        prev  == SetMonth(date, Plus(GetMonth(date), -1))
    IN  NumToString(GetFullYear(prev)) \o <<"-">> \o NumToString(Plus(GetMonth(prev), 1))

\* each const of the function is bound to its value once: year and monthNum,
\* then date, then the date after setMonth, then the string returned
getPreviousMonth(month) ==
    CHOOSE formatted \in
        {FormatYearMonth(prev) :
            prev \in {SetMonth(date, Plus(GetMonth(date), -1)) :
                date \in {MakeDate(year, Plus(monthNum, -1)) :
                    year \in {ParseInt(Part(parts, 1)) : parts \in {SplitDash(month)}},
                    monthNum \in {ParseInt(Part(parts, 2)) : parts \in {SplitDash(month)}}}}} :
        TRUE

----------------------------------------------------------------------------
(* The schedule projection of a balance account *)

Max(a, b) == IF a >= b THEN a ELSE b

\* calculateCurrentBalance without the deduction of the start month
calculateCurrentBalanceExcludingStart(initialBalance, monthlyDeduction, startMonth, currentMonth) ==
    LET startParts    == SplitDash(startMonth)
        currentParts  == SplitDash(currentMonth)
        startDate     == MakeDate(ToNumber(Part(startParts, 1)),
                                  Plus(ToNumber(Part(startParts, 2)), -1))
        currentDate   == MakeDate(ToNumber(Part(currentParts, 1)),
                                  Plus(ToNumber(Part(currentParts, 2)), -1))
        monthsElapsed == (GetFullYear(currentDate) - GetFullYear(startDate)) * 12
                         + (GetMonth(currentDate) - GetMonth(startDate))
    IN  IF monthsElapsed < 0 THEN initialBalance
        ELSE Max(0, initialBalance - monthlyDeduction * monthsElapsed)

\* calculateCurrentBalance counting the months without the years
calculateCurrentBalanceIgnoringYear(initialBalance, monthlyDeduction, startMonth, currentMonth) ==
    LET startParts    == SplitDash(startMonth)
        currentParts  == SplitDash(currentMonth)
        startDate     == MakeDate(ToNumber(Part(startParts, 1)),
                                  Plus(ToNumber(Part(startParts, 2)), -1))
        currentDate   == MakeDate(ToNumber(Part(currentParts, 1)),
                                  Plus(ToNumber(Part(currentParts, 2)), -1))
        monthsElapsed == GetMonth(currentDate) - GetMonth(startDate)
    IN  IF monthsElapsed < 0 THEN initialBalance
        ELSE Max(0, initialBalance - monthlyDeduction * (monthsElapsed + 1))

calculateCurrentBalance(initialBalance, monthlyDeduction, startMonth, currentMonth) ==
    LET startParts    == SplitDash(startMonth)
        currentParts  == SplitDash(currentMonth)
        startDate     == MakeDate(ToNumber(Part(startParts, 1)),
                                  Plus(ToNumber(Part(startParts, 2)), -1))
        currentDate   == MakeDate(ToNumber(Part(currentParts, 1)),
                                  Plus(ToNumber(Part(currentParts, 2)), -1))
        monthsElapsed == IF startDate.valid /\ currentDate.valid
                         THEN (GetFullYear(currentDate) - GetFullYear(startDate)) * 12
                              + (GetMonth(currentDate) - GetMonth(startDate))
                         ELSE NaN
    IN  IF monthsElapsed = NaN THEN NaN
        ELSE IF monthsElapsed < 0 THEN initialBalance
        ELSE Max(0, initialBalance - monthlyDeduction * (monthsElapsed + 1))

\* the months from startMonth to currentMonth as calculateCurrentBalance counts them
monthsElapsed(startMonth, currentMonth) ==
    LET startParts    == SplitDash(startMonth)
        currentParts  == SplitDash(currentMonth)
        startDate     == MakeDate(ToNumber(Part(startParts, 1)),
                                  Plus(ToNumber(Part(startParts, 2)), -1))
        currentDate   == MakeDate(ToNumber(Part(currentParts, 1)),
                                  Plus(ToNumber(Part(currentParts, 2)), -1))
    IN  IF startDate.valid /\ currentDate.valid
        THEN (GetFullYear(currentDate) - GetFullYear(startDate)) * 12
             + (GetMonth(currentDate) - GetMonth(startDate))
        ELSE NaN

----------------------------------------------------------------------------
(* The store *)

Null == "null"

Dec2024 == <<"2", "0", "2", "4", "-", "1", "2">>

Jan2025 == <<"2", "0", "2", "5", "-", "0", "1">>

\* the months the month selector is moved between
Months == {Dec2024, Jan2025}

TABLES == [INCOMES |-> "incomes", TAXES |-> "taxes", EXPENSES |-> "expenses",
           UNNECESSARY_EXPENSES |-> "unnecessary_expenses"]

TableNames == {TABLES.INCOMES, TABLES.TAXES, TABLES.EXPENSES, TABLES.UNNECESSARY_EXPENSES}

\* a column of an insert payload, or the column's DEFAULT when the payload omits it
Col(payload, name, default) == IF name \in DOMAIN payload THEN payload[name] ELSE default

\* the row the table stores for one insert payload
StoredRow(table, payload, id, now) ==
    CASE table = TABLES.INCOMES ->
           [id |-> id, member |-> payload.member,
            income_type |-> Col(payload, "income_type", "Salary"),
            description |-> payload.description, amount |-> payload.amount,
            month |-> payload.month, created_at |-> now]
      [] table = TABLES.TAXES ->
           [id |-> id, member |-> payload.member,
            description |-> payload.description, amount |-> payload.amount,
            month |-> payload.month, created_at |-> now]
      [] table = TABLES.EXPENSES ->
           [id |-> id, member |-> payload.member, category |-> payload.category,
            description |-> payload.description, amount |-> payload.amount,
            month |-> payload.month,
            is_shared |-> Col(payload, "is_shared", FALSE),
            is_recurring |-> Col(payload, "is_recurring", FALSE),
            is_paid |-> Col(payload, "is_paid", FALSE),
            include_vat |-> Col(payload, "include_vat", FALSE),
            note |-> Col(payload, "note", Null),
            balance_account_id |-> Col(payload, "balance_account_id", Null),
            created_at |-> now]
      [] table = TABLES.UNNECESSARY_EXPENSES ->
           [id |-> id, member |-> payload.member,
            description |-> payload.description, amount |-> payload.amount,
            month |-> payload.month, note |-> Col(payload, "note", Null),
            created_at |-> now]

\* an insert that replaces the rows of the table
InsertRowsReplacing(store, table, payloads, firstId) ==
    [store EXCEPT ![table] =
        {StoredRow(table, payloads[i], firstId + i - 1, firstId) : i \in 1..Len(payloads)}]

\* supabase.from(table).insert(payloads): one statement, fresh ids, one created_at
InsertRows(store, table, payloads, firstId) ==
    [store EXCEPT ![table] =
        @ \cup {StoredRow(table, payloads[i], firstId + i - 1, firstId) : i \in 1..Len(payloads)}]

\* rows in ascending (created_at, id) order
RECURSIVE Ascending(_)
Ascending(rows) ==
    IF rows = {} THEN <<>>
    ELSE LET first == CHOOSE r \in rows :
                          \A q \in rows :
                              \/ r.created_at < q.created_at
                              \/ (r.created_at = q.created_at /\ r.id <= q.id)
         IN  <<first>> \o Ascending(rows \ {first})

Reverse(s) == [i \in 1..Len(s) |-> s[Len(s) + 1 - i]]

\* supabase.from(table).select('*').eq('month', month).order('created_at', {ascending})
SelectMonthRows(store, table, month, ascending) ==
    LET rows == Ascending({r \in store[table] : r.month = month})
    IN  IF ascending THEN rows ELSE Reverse(rows)

----------------------------------------------------------------------------
(* The rows a session may find in the store *)

Income1 == [id |-> 1, member |-> "Nikkie", income_type |-> "Other", description |-> "Bonus",
            amount |-> 20000, month |-> Dec2024, created_at |-> 1]

Tax1 == [id |-> 2, member |-> "Nikkie", description |-> "PAYE", amount |-> 3000,
         month |-> Dec2024, created_at |-> 2]

Expense1 == [id |-> 3, member |-> "Nikkie", category |-> "Housing", description |-> "Bond",
             amount |-> 1500, month |-> Dec2024, is_shared |-> TRUE, is_recurring |-> TRUE,
             is_paid |-> TRUE, include_vat |-> TRUE, note |-> "debit order",
             balance_account_id |-> "acc1", created_at |-> 3]

Expense2 == [id |-> 4, member |-> "Hein", category |-> "Groceries", description |-> "Food",
             amount |-> 300, month |-> Dec2024, is_shared |-> FALSE, is_recurring |-> FALSE,
             is_paid |-> FALSE, include_vat |-> FALSE, note |-> Null,
             balance_account_id |-> Null, created_at |-> 4]

Income2 == [id |-> 5, member |-> "Hein", income_type |-> "Salary", description |-> "Job",
            amount |-> 500, month |-> Jan2025, created_at |-> 5]

Unnecessary1 == [id |-> 6, member |-> "Hein", description |-> "Snacks", amount |-> 50,
                 month |-> Jan2025, note |-> Null, created_at |-> 6]

\* December 2024 holds an income or none, and a tax with two expenses or
\* none; January 2025 is empty or holds one income or one discretionary row
InitialStores ==
    { [incomes |-> is \cup jan.incomes, taxes |-> dec.taxes, expenses |-> dec.expenses,
       unnecessary_expenses |-> jan.unnecessary_expenses] :
        is \in SUBSET {Income1},
        dec \in {[taxes |-> {}, expenses |-> {}],
                 [taxes |-> {Tax1}, expenses |-> {Expense1, Expense2}]},
        jan \in {[incomes |-> {}, unnecessary_expenses |-> {}],
                 [incomes |-> {Income2}, unnecessary_expenses |-> {}],
                 [incomes |-> {}, unnecessary_expenses |-> {Unnecessary1}]} }

FirstFreeId == Unnecessary1.id + 1

----------------------------------------------------------------------------
(* The calls of a session *)

NoRows == [incomes |-> <<>>, taxes |-> <<>>, expenses |-> <<>>]

NotFetched == [incomes |-> -1, taxes |-> -1, expenses |-> -1, unnecessary_expenses |-> -1]

\* op, pc and month are the call's code position and its closure's selectedMonth;
\* toInsert holds newIncomes, newTaxes and newExpenses; the other fields record
\* what the call has done: the rows it copies from, the rows its first fetch
\* found, the ids it inserted, the request that failed, the result of
\* autoCarryForwardFromPreviousMonth, the call's own result, and whether another
\* call was in flight at any time during this one
NewCall(op, month, toInsert, pc) ==
    [op |-> op, pc |-> pc, month |-> month, toInsert |-> toInsert,
     source |-> NoRows, found |-> NotFetched, inserted |-> {}, failedAt |-> "none",
     carry |-> "none", ret |-> "pending", concurrent |-> FALSE]

Running == {p \in 1..Len(calls) : calls[p].pc # "done"}

\* a call starts while the calls in Running are still awaiting the store
StartCall(call) ==
    calls' = Append([p \in 1..Len(calls) |->
                        IF p \in Running THEN [calls[p] EXCEPT !.concurrent = TRUE]
                        ELSE calls[p]],
                    [call EXCEPT !.concurrent = Running # {}])

CanFail == failures < MaxFailures

CanStart == Len(calls) < MaxCalls /\ Cardinality(Running) < MaxInFlight

StoreUnchanged == UNCHANGED <<db, nextId>>

ShownUnchanged == UNCHANGED <<incomes, taxes, expenses, unnecessaryExpenses>>

BalanceUnchanged == UNCHANGED outsideBudget

\* the setters given the rows of the month selected now
SetShownOfSelected(month) ==
    /\ incomes' = SelectMonthRows(db, TABLES.INCOMES, selectedMonth, FALSE)
    /\ taxes' = SelectMonthRows(db, TABLES.TAXES, selectedMonth, FALSE)
    /\ expenses' = SelectMonthRows(db, TABLES.EXPENSES, selectedMonth, FALSE)
    /\ unnecessaryExpenses' = SelectMonthRows(db, TABLES.UNNECESSARY_EXPENSES, selectedMonth, FALSE)

\* the four selects of fetchData and fetchDataWithoutAutoCarry
SetShown(month) ==
    /\ incomes' = SelectMonthRows(db, TABLES.INCOMES, month, FALSE)
    /\ taxes' = SelectMonthRows(db, TABLES.TAXES, month, FALSE)
    /\ expenses' = SelectMonthRows(db, TABLES.EXPENSES, month, FALSE)
    /\ unnecessaryExpenses' = SelectMonthRows(db, TABLES.UNNECESSARY_EXPENSES, month, FALSE)

----------------------------------------------------------------------------
(* fetchData *)

\* the condition without the test of the incomes
ShouldAutoCarryIgnoringIncomes(fetchedIncomes, fetchedTaxes, fetchedExpenses, carried, month) ==
    /\ Len(fetchedTaxes) = 0
    /\ Len(fetchedExpenses) = 0
    /\ month \notin carried

\* the condition without the test of the guard set
ShouldAutoCarryUnguarded(fetchedIncomes, fetchedTaxes, fetchedExpenses, carried, month) ==
    /\ Len(fetchedIncomes) = 0
    /\ Len(fetchedTaxes) = 0
    /\ Len(fetchedExpenses) = 0

\* the condition under which fetchData starts the automatic carry-forward
ShouldAutoCarry(fetchedIncomes, fetchedTaxes, fetchedExpenses, carried, month) ==
    /\ Len(fetchedIncomes) = 0
    /\ Len(fetchedTaxes) = 0
    /\ Len(fetchedExpenses) = 0
    /\ month \notin carried

\* the month selector changes selectedMonth; the effect calls the new fetchData,
\* which sets loading and clears error before its first await
SelectMonth(m) ==
    /\ CanStart
    /\ m # selectedMonth
    /\ selectedMonth' = m
    /\ loading' = TRUE
    /\ error' = Null
    /\ StartCall(NewCall("fetchData", m, NoRows, "fetch"))
    /\ StoreUnchanged /\ ShownUnchanged /\ BalanceUnchanged
    /\ UNCHANGED <<isCarryingOver, carriedOverMonths, failures, db0>>

\* the four selects return: the rows are shown, and either the load ends or
\* the month enters the guard set and autoCarryForwardFromPreviousMonth starts
FetchDataFetched(p) ==
    /\ p \in Running
    /\ calls[p].op = "fetchData" /\ calls[p].pc = "fetch"
    /\ LET m == calls[p].month
           fetchedIncomes == SelectMonthRows(db, TABLES.INCOMES, m, FALSE)
           fetchedTaxes == SelectMonthRows(db, TABLES.TAXES, m, FALSE)
           fetchedExpenses == SelectMonthRows(db, TABLES.EXPENSES, m, FALSE)
           fetchedUnnecessaryExpenses ==
               SelectMonthRows(db, TABLES.UNNECESSARY_EXPENSES, m, FALSE)
           found == [incomes |-> Len(fetchedIncomes), taxes |-> Len(fetchedTaxes),
                     expenses |-> Len(fetchedExpenses),
                     unnecessary_expenses |-> Len(fetchedUnnecessaryExpenses)]
       IN  /\ SetShown(m)
           /\ IF ShouldAutoCarry(fetchedIncomes, fetchedTaxes, fetchedExpenses,
                                 carriedOverMonths, m)
              THEN /\ carriedOverMonths' = carriedOverMonths \cup {m}
                   /\ isCarryingOver' = TRUE
                   /\ calls' = [calls EXCEPT ![p].pc = "carry_fetch", ![p].found = found,
                                             ![p].carry = "running"]
                   /\ UNCHANGED loading
              ELSE /\ loading' = FALSE
                   /\ calls' = [calls EXCEPT ![p].pc = "done", ![p].found = found,
                                             ![p].ret = "void"]
                   /\ UNCHANGED <<carriedOverMonths, isCarryingOver>>
    /\ StoreUnchanged /\ BalanceUnchanged
    /\ UNCHANGED <<selectedMonth, error, failures, db0>>

\* one of the four selects returns an error: fetchData's catch and finally
FetchDataFails(p) ==
    /\ p \in Running
    /\ calls[p].op = "fetchData" /\ calls[p].pc = "fetch"
    /\ CanFail
    /\ failures' = failures + 1
    /\ error' = "Failed to fetch data"
    /\ loading' = FALSE
    /\ calls' = [calls EXCEPT ![p].pc = "done", ![p].failedAt = "fetch", ![p].ret = "void"]
    /\ StoreUnchanged /\ ShownUnchanged /\ BalanceUnchanged
    /\ UNCHANGED <<selectedMonth, isCarryingOver, carriedOverMonths, db0>>

----------------------------------------------------------------------------
(* autoCarryForwardFromPreviousMonth, awaited by fetchData *)

newIncome(income, month) ==
    [member |-> income.member, income_type |-> income.income_type,
     description |-> income.description, amount |-> income.amount, month |-> month]

newTax(tax, month) ==
    [member |-> tax.member, description |-> tax.description, amount |-> tax.amount,
     month |-> month]

\* newExpense without the payment fields
newExpenseWithoutPayment(expense, month) ==
    [member |-> expense.member, category |-> expense.category,
     description |-> expense.description, amount |-> expense.amount,
     is_shared |-> expense.is_shared, is_recurring |-> expense.is_recurring,
     include_vat |-> expense.include_vat, note |-> expense.note, month |-> month]

\* newExpense with the copy marked as not paid
newExpenseUnpaid(expense, month) ==
    [member |-> expense.member, category |-> expense.category,
     description |-> expense.description, amount |-> expense.amount,
     is_shared |-> expense.is_shared, is_recurring |-> expense.is_recurring,
     is_paid |-> FALSE, include_vat |-> expense.include_vat,
     note |-> expense.note, balance_account_id |-> expense.balance_account_id,
     month |-> month]

newExpense(expense, month) ==
    [member |-> expense.member, category |-> expense.category,
     description |-> expense.description, amount |-> expense.amount,
     is_shared |-> expense.is_shared, is_recurring |-> expense.is_recurring,
     is_paid |-> expense.is_paid, include_vat |-> expense.include_vat,
     note |-> expense.note, balance_account_id |-> expense.balance_account_id,
     month |-> month]

newIncomes(prevIncomes, month) ==
    [i \in 1..Len(prevIncomes) |-> newIncome(prevIncomes[i], month)]

newTaxes(prevTaxes, month) == [i \in 1..Len(prevTaxes) |-> newTax(prevTaxes[i], month)]

newExpenses(prevExpenses, month) ==
    [i \in 1..Len(prevExpenses) |-> newExpense(prevExpenses[i], month)]

\* the insert that follows the position pc: empty batches are skipped, the order
\* is incomes, taxes, expenses, and the refresh comes last
NextInsert(toInsert, pc) ==
    LET order == <<"insert_incomes", "insert_taxes", "insert_expenses", "refetch">>
        batch == <<toInsert.incomes, toInsert.taxes, toInsert.expenses, <<0>> >>
        from  == CASE pc = "carry_fetch" -> 1 [] pc = "insert_incomes" -> 2
                   [] pc = "insert_taxes" -> 3 [] pc = "insert_expenses" -> 4
        i     == CHOOSE j \in from..4 :
                     Len(batch[j]) > 0 /\ \A k \in from..(j - 1) : Len(batch[k]) = 0
    IN  order[i]

InsertTable(pc) ==
    CASE pc = "insert_incomes" -> TABLES.INCOMES
      [] pc = "insert_taxes" -> TABLES.TAXES
      [] pc = "insert_expenses" -> TABLES.EXPENSES

\* a return that leaves the guard set as it is when the carry-forward failed
CarryReturnsKeepingGuard(p, ok, failedAt) ==
    /\ isCarryingOver' = FALSE
    /\ loading' = FALSE
    /\ UNCHANGED carriedOverMonths
    /\ calls' = [calls EXCEPT ![p].pc = "done", ![p].failedAt = failedAt,
                              ![p].carry = IF ok THEN "true" ELSE "false",
                              ![p].ret = "void"]

\* a return that takes the month out of the guard set whatever the result
CarryReturnsForgetting(p, ok, failedAt) ==
    /\ isCarryingOver' = FALSE
    /\ loading' = FALSE
    /\ carriedOverMonths' = carriedOverMonths \ {calls[p].month}
    /\ calls' = [calls EXCEPT ![p].pc = "done", ![p].failedAt = failedAt,
                              ![p].carry = IF ok THEN "true" ELSE "false",
                              ![p].ret = "void"]

\* a return without the finally of autoCarryForwardFromPreviousMonth
CarryReturnsStillCarrying(p, ok, failedAt) ==
    /\ UNCHANGED isCarryingOver
    /\ loading' = FALSE
    /\ carriedOverMonths' = IF ok THEN carriedOverMonths
                            ELSE carriedOverMonths \ {calls[p].month}
    /\ calls' = [calls EXCEPT ![p].pc = "done", ![p].failedAt = failedAt,
                              ![p].carry = IF ok THEN "true" ELSE "false",
                              ![p].ret = "void"]

\* autoCarryForwardFromPreviousMonth returns: its finally, then fetchData's finally
CarryReturns(p, ok, failedAt) ==
    /\ isCarryingOver' = FALSE
    /\ loading' = FALSE
    /\ carriedOverMonths' = IF ok THEN carriedOverMonths
                            ELSE carriedOverMonths \ {calls[p].month}
    /\ calls' = [calls EXCEPT ![p].pc = "done", ![p].failedAt = failedAt,
                              ![p].carry = IF ok THEN "true" ELSE "false",
                              ![p].ret = "void"]

\* the three selects of the previous month return
CarryFetched(p) ==
    /\ p \in Running
    /\ calls[p].op = "fetchData" /\ calls[p].pc = "carry_fetch"
    /\ \E previousMonth \in {getPreviousMonth(calls[p].month)} :
       \E prevIncomes \in {SelectMonthRows(db, TABLES.INCOMES, previousMonth, TRUE)},
          prevTaxes \in {SelectMonthRows(db, TABLES.TAXES, previousMonth, TRUE)},
          prevExpenses \in {SelectMonthRows(db, TABLES.EXPENSES, previousMonth, TRUE)} :
       \E toInsert \in {[incomes |-> newIncomes(prevIncomes, calls[p].month),
                         taxes |-> newTaxes(prevTaxes, calls[p].month),
                         expenses |-> newExpenses(prevExpenses, calls[p].month)]} :
           IF Len(prevIncomes) = 0 /\ Len(prevTaxes) = 0 /\ Len(prevExpenses) = 0
           THEN CarryReturns(p, TRUE, "none")
           ELSE /\ calls' = [calls EXCEPT ![p].pc = NextInsert(toInsert, "carry_fetch"),
                                          ![p].toInsert = toInsert,
                                          ![p].source = [incomes |-> prevIncomes,
                                                         taxes |-> prevTaxes,
                                                         expenses |-> prevExpenses]]
                /\ UNCHANGED <<isCarryingOver, loading, carriedOverMonths>>
    /\ StoreUnchanged /\ ShownUnchanged /\ BalanceUnchanged
    /\ UNCHANGED <<selectedMonth, error, failures, db0>>

\* one of the selects of the previous month returns an error
CarryFetchFails(p) ==
    /\ p \in Running
    /\ calls[p].op = "fetchData" /\ calls[p].pc = "carry_fetch"
    /\ CanFail
    /\ failures' = failures + 1
    /\ CarryReturns(p, FALSE, "carry_fetch")
    /\ StoreUnchanged /\ ShownUnchanged /\ BalanceUnchanged
    /\ UNCHANGED <<selectedMonth, error, db0>>

\* one insert of the carry-forward succeeds
CarryInserted(p) ==
    /\ p \in Running
    /\ calls[p].op = "fetchData"
    /\ calls[p].pc \in {"insert_incomes", "insert_taxes", "insert_expenses"}
    /\ LET table == InsertTable(calls[p].pc)
           payloads == calls[p].toInsert[table]
       IN  /\ db' = InsertRows(db, table, payloads, nextId)
           /\ nextId' = nextId + Len(payloads)
           /\ calls' = [calls EXCEPT ![p].pc = NextInsert(calls[p].toInsert, calls[p].pc),
                                     ![p].inserted = @ \cup (nextId..(nextId + Len(payloads) - 1))]
    /\ ShownUnchanged /\ BalanceUnchanged
    /\ UNCHANGED <<selectedMonth, loading, error, isCarryingOver, carriedOverMonths,
                   failures, db0>>

\* one insert of the carry-forward returns an error: the later inserts are not made
CarryInsertFails(p) ==
    /\ p \in Running
    /\ calls[p].op = "fetchData"
    /\ calls[p].pc \in {"insert_incomes", "insert_taxes", "insert_expenses"}
    /\ CanFail
    /\ failures' = failures + 1
    /\ CarryReturns(p, FALSE, calls[p].pc)
    /\ StoreUnchanged /\ ShownUnchanged /\ BalanceUnchanged
    /\ UNCHANGED <<selectedMonth, error, db0>>

\* fetchDataWithoutAutoCarry at the end of the carry-forward: the rows are shown.
\* An error of the discretionary select alone is not looked at: that list is emptied
CarryRefetched(p, unnecessaryOk) ==
    /\ p \in Running
    /\ calls[p].op = "fetchData" /\ calls[p].pc = "refetch"
    /\ IF unnecessaryOk
       THEN /\ SetShown(calls[p].month)
            /\ UNCHANGED failures
       ELSE /\ CanFail
            /\ failures' = failures + 1
            /\ incomes' = SelectMonthRows(db, TABLES.INCOMES, calls[p].month, FALSE)
            /\ taxes' = SelectMonthRows(db, TABLES.TAXES, calls[p].month, FALSE)
            /\ expenses' = SelectMonthRows(db, TABLES.EXPENSES, calls[p].month, FALSE)
            /\ unnecessaryExpenses' = <<>>
    /\ CarryReturns(p, TRUE, IF unnecessaryOk THEN "none" ELSE "refetch")
    /\ StoreUnchanged /\ BalanceUnchanged
    /\ UNCHANGED <<selectedMonth, error, db0>>

\* fetchDataWithoutAutoCarry catches the error of a primary select and shows nothing new
CarryRefetchFails(p) ==
    /\ p \in Running
    /\ calls[p].op = "fetchData" /\ calls[p].pc = "refetch"
    /\ CanFail
    /\ failures' = failures + 1
    /\ CarryReturns(p, TRUE, "refetch")
    /\ StoreUnchanged /\ ShownUnchanged /\ BalanceUnchanged
    /\ UNCHANGED <<selectedMonth, error, db0>>

----------------------------------------------------------------------------
(* carryOverExpenses: the manual carry-over of chosen expenses *)

carriedExpense(expense, month) ==
    [member |-> expense.member, category |-> expense.category,
     description |-> expense.description, amount |-> expense.amount, month |-> month]

\* the caller passes some of the previous month's expenses; the insert is issued.
\* App renders the carry-over dialog only while neither loading nor isCarryingOver
CarryOverExpensesCalled(chosen) ==
    /\ CanStart
    /\ ~loading /\ ~isCarryingOver
    /\ chosen # {}
    /\ chosen \subseteq {e \in db[TABLES.EXPENSES] : e.month = getPreviousMonth(selectedMonth)}
    /\ LET expensesToCarry == Ascending(chosen)
           carried == [i \in 1..Len(expensesToCarry) |->
                          carriedExpense(expensesToCarry[i], selectedMonth)]
       IN  StartCall([NewCall("carryOverExpenses", selectedMonth,
                               [NoRows EXCEPT !.expenses = carried], "insert_expenses")
                         EXCEPT !.source = [NoRows EXCEPT !.expenses = expensesToCarry]])
    /\ StoreUnchanged /\ ShownUnchanged /\ BalanceUnchanged
    /\ UNCHANGED <<selectedMonth, loading, error, isCarryingOver, carriedOverMonths,
                   failures, db0>>

\* an insert that leaves out the expenses the month already holds
CarryOverExpensesInsertedOnce(p) ==
    /\ p \in Running
    /\ calls[p].op = "carryOverExpenses" /\ calls[p].pc = "insert_expenses"
    /\ LET all == calls[p].toInsert.expenses
           held == {[f \in DOMAIN all[1] |-> r[f]] : r \in db[TABLES.EXPENSES]}
           payloads == SelectSeq(all, LAMBDA x : x \notin held)
       IN  /\ db' = InsertRows(db, TABLES.EXPENSES, payloads, nextId)
           /\ nextId' = nextId + Len(payloads)
           /\ calls' = [calls EXCEPT ![p].pc = "refetch",
                                     ![p].inserted = @ \cup (nextId..(nextId + Len(payloads) - 1))]
    /\ ShownUnchanged /\ BalanceUnchanged
    /\ UNCHANGED <<selectedMonth, loading, error, isCarryingOver, carriedOverMonths,
                   failures, db0>>

\* the insert succeeds; fetchDataWithoutAutoCarry is awaited next
CarryOverExpensesInserted(p) ==
    /\ p \in Running
    /\ calls[p].op = "carryOverExpenses" /\ calls[p].pc = "insert_expenses"
    /\ LET payloads == calls[p].toInsert.expenses
       IN  /\ db' = InsertRows(db, TABLES.EXPENSES, payloads, nextId)
           /\ nextId' = nextId + Len(payloads)
           /\ calls' = [calls EXCEPT ![p].pc = "refetch",
                                     ![p].inserted = @ \cup (nextId..(nextId + Len(payloads) - 1))]
    /\ ShownUnchanged /\ BalanceUnchanged
    /\ UNCHANGED <<selectedMonth, loading, error, isCarryingOver, carriedOverMonths,
                   failures, db0>>

\* the insert returns an error: carryOverExpenses returns false
CarryOverExpensesFails(p) ==
    /\ p \in Running
    /\ calls[p].op = "carryOverExpenses" /\ calls[p].pc = "insert_expenses"
    /\ CanFail
    /\ failures' = failures + 1
    /\ calls' = [calls EXCEPT ![p].pc = "done", ![p].failedAt = "insert_expenses",
                              ![p].ret = "false"]
    /\ StoreUnchanged /\ ShownUnchanged /\ BalanceUnchanged
    /\ UNCHANGED <<selectedMonth, loading, error, isCarryingOver, carriedOverMonths, db0>>

\* fetchDataWithoutAutoCarry returns, with or without an error: carryOverExpenses
\* returns true
CarryOverExpensesRefetched(p, outcome) ==
    /\ p \in Running
    /\ calls[p].op = "carryOverExpenses" /\ calls[p].pc = "refetch"
    /\ CASE outcome = "ok" ->
              /\ SetShown(calls[p].month)
              /\ UNCHANGED failures
         [] outcome = "unnecessary_error" ->
              /\ CanFail
              /\ failures' = failures + 1
              /\ incomes' = SelectMonthRows(db, TABLES.INCOMES, calls[p].month, FALSE)
              /\ taxes' = SelectMonthRows(db, TABLES.TAXES, calls[p].month, FALSE)
              /\ expenses' = SelectMonthRows(db, TABLES.EXPENSES, calls[p].month, FALSE)
              /\ unnecessaryExpenses' = <<>>
         [] outcome = "error" ->
              /\ CanFail
              /\ failures' = failures + 1
              /\ ShownUnchanged
    /\ calls' = [calls EXCEPT ![p].pc = "done", ![p].ret = "true",
                              ![p].failedAt = IF outcome = "ok" THEN "none" ELSE "refetch"]
    /\ StoreUnchanged /\ BalanceUnchanged
    /\ UNCHANGED <<selectedMonth, loading, error, isCarryingOver, carriedOverMonths, db0>>

RefetchOutcomes == {"ok", "unnecessary_error", "error"}

----------------------------------------------------------------------------
(* A second session: another useBudget, with its own state and its own
   carriedOverMonths, opening on the same store *)

\* the second session after its first render: the effect has called fetchData
NewPeer(month) ==
    [pc |-> "fetch", month |-> month, carriedOverMonths |-> {}, loading |-> TRUE,
     error |-> Null, isCarryingOver |-> FALSE, shown |-> <<<<>>, <<>>, <<>>, <<>>>>,
     found |-> NotFetched, toInsert |-> NoRows, source |-> NoRows, inserted |-> {},
     carry |-> "none"]

\* no second session
NoPeer == [NewPeer(Jan2025) EXCEPT !.pc = "done", !.loading = FALSE]

\* the four selects of the given month, as the second session shows them
PeerShown(month) ==
    <<SelectMonthRows(db, TABLES.INCOMES, month, FALSE),
      SelectMonthRows(db, TABLES.TAXES, month, FALSE),
      SelectMonthRows(db, TABLES.EXPENSES, month, FALSE),
      SelectMonthRows(db, TABLES.UNNECESSARY_EXPENSES, month, FALSE)>>

\* the decision of the second session, were the guard set shared by the sessions
PeerFetchedSharingGuard ==
    /\ peer.pc = "fetch"
    /\ LET m == peer.month
           rows == PeerShown(m)
           found == [incomes |-> Len(rows[1]), taxes |-> Len(rows[2]),
                     expenses |-> Len(rows[3]), unnecessary_expenses |-> Len(rows[4])]
       IN  IF ShouldAutoCarry(rows[1], rows[2], rows[3],
                              peer.carriedOverMonths \cup carriedOverMonths, m)
           THEN peer' = [peer EXCEPT !.shown = rows, !.found = found,
                                     !.carriedOverMonths = @ \cup {m},
                                     !.isCarryingOver = TRUE, !.carry = "running",
                                     !.pc = "carry_fetch"]
           ELSE peer' = [peer EXCEPT !.shown = rows, !.found = found,
                                     !.loading = FALSE, !.pc = "done"]
    /\ UNCHANGED <<db, nextId, failures>>
    /\ UNCHANGED outsidePeer

\* fetchData of the second session: the four selects return
PeerFetched ==
    /\ peer.pc = "fetch"
    /\ LET m == peer.month
           rows == PeerShown(m)
           found == [incomes |-> Len(rows[1]), taxes |-> Len(rows[2]),
                     expenses |-> Len(rows[3]), unnecessary_expenses |-> Len(rows[4])]
       IN  IF ShouldAutoCarry(rows[1], rows[2], rows[3], peer.carriedOverMonths, m)
           THEN peer' = [peer EXCEPT !.shown = rows, !.found = found,
                                     !.carriedOverMonths = @ \cup {m},
                                     !.isCarryingOver = TRUE, !.carry = "running",
                                     !.pc = "carry_fetch"]
           ELSE peer' = [peer EXCEPT !.shown = rows, !.found = found,
                                     !.loading = FALSE, !.pc = "done"]
    /\ UNCHANGED <<db, nextId, failures>>
    /\ UNCHANGED outsidePeer

\* autoCarryForwardFromPreviousMonth of the second session: the three selects
\* of the previous month return
PeerCarryFetched ==
    /\ peer.pc = "carry_fetch"
    /\ LET m == peer.month
           previousMonth == getPreviousMonth(m)
           prevIncomes == SelectMonthRows(db, TABLES.INCOMES, previousMonth, TRUE)
           prevTaxes == SelectMonthRows(db, TABLES.TAXES, previousMonth, TRUE)
           prevExpenses == SelectMonthRows(db, TABLES.EXPENSES, previousMonth, TRUE)
           toInsert == [incomes |-> newIncomes(prevIncomes, m),
                        taxes |-> newTaxes(prevTaxes, m),
                        expenses |-> newExpenses(prevExpenses, m)]
       IN  IF Len(prevIncomes) = 0 /\ Len(prevTaxes) = 0 /\ Len(prevExpenses) = 0
           THEN peer' = [peer EXCEPT !.pc = "done", !.carry = "true",
                                     !.isCarryingOver = FALSE, !.loading = FALSE]
           ELSE peer' = [peer EXCEPT !.pc = NextInsert(toInsert, "carry_fetch"),
                                     !.toInsert = toInsert,
                                     !.source = [incomes |-> prevIncomes,
                                                 taxes |-> prevTaxes,
                                                 expenses |-> prevExpenses]]
    /\ UNCHANGED <<db, nextId, failures>>
    /\ UNCHANGED outsidePeer

\* one insert of the carry-forward of the second session succeeds
PeerCarryInserted ==
    /\ peer.pc \in {"insert_incomes", "insert_taxes", "insert_expenses"}
    /\ LET table == InsertTable(peer.pc)
           payloads == peer.toInsert[table]
       IN  /\ db' = InsertRows(db, table, payloads, nextId)
           /\ nextId' = nextId + Len(payloads)
           /\ peer' = [peer EXCEPT !.pc = NextInsert(peer.toInsert, peer.pc),
                                   !.inserted = @ \cup (nextId..(nextId + Len(payloads) - 1))]
    /\ UNCHANGED failures
    /\ UNCHANGED outsidePeer

\* fetchDataWithoutAutoCarry of the second session returns its rows
PeerCarryRefetched ==
    /\ peer.pc = "refetch"
    /\ peer' = [peer EXCEPT !.shown = PeerShown(peer.month), !.pc = "done",
                            !.carry = "true", !.isCarryingOver = FALSE,
                            !.loading = FALSE]
    /\ UNCHANGED <<db, nextId, failures>>
    /\ UNCHANGED outsidePeer

\* a request of the second session returns an error: the catch of fetchData,
\* of autoCarryForwardFromPreviousMonth or of fetchDataWithoutAutoCarry
PeerRequestFails ==
    /\ peer.pc # "done"
    /\ CanFail
    /\ failures' = failures + 1
    /\ peer' = CASE peer.pc = "fetch" ->
                     [peer EXCEPT !.pc = "done", !.error = "Failed to fetch data",
                                  !.loading = FALSE]
                [] peer.pc = "refetch" ->
                     [peer EXCEPT !.pc = "done", !.carry = "true",
                                  !.isCarryingOver = FALSE, !.loading = FALSE]
                [] OTHER ->
                     [peer EXCEPT !.pc = "done", !.carry = "false",
                                  !.carriedOverMonths = @ \ {peer.month},
                                  !.isCarryingOver = FALSE, !.loading = FALSE]
    /\ UNCHANGED <<db, nextId>>
    /\ UNCHANGED outsidePeer

InitPeer(peers) == peer \in peers

----------------------------------------------------------------------------
(* addIncome .. updateExpense: one write, then fetchData *)

Tax2 == [id |-> 6, member |-> "Hein", description |-> "UIF", amount |-> 100,
         month |-> Jan2025, created_at |-> 6]

Expense4 == [id |-> 4, member |-> "Hein", category |-> "Transport", description |-> "Fuel",
             amount |-> 200, month |-> Jan2025, is_shared |-> FALSE, is_recurring |-> FALSE,
             is_paid |-> FALSE, include_vat |-> FALSE, note |-> Null,
             balance_account_id |-> Null, created_at |-> 4]

\* January 2025 after December 2024, with rows in every table or with incomes
\* only, or January 2025 alone with a row in every table
MutationStores ==
    { [incomes |-> {Income1, Income2}, taxes |-> {Tax1}, expenses |-> {Expense1},
       unnecessary_expenses |-> {}],
      [incomes |-> {Income1, Income2}, taxes |-> {}, expenses |-> {},
       unnecessary_expenses |-> {}],
      [incomes |-> {Income2}, taxes |-> {Tax2}, expenses |-> {Expense4},
       unnecessary_expenses |-> {Unnecessary1}] }

\* January 2025 empty after a December 2024 with rows, or after an empty one
SessionStores ==
    { [incomes |-> {Income1}, taxes |-> {Tax1}, expenses |-> {Expense1, Expense2},
       unnecessary_expenses |-> {}],
      [incomes |-> {}, taxes |-> {Tax1}, expenses |-> {},
       unnecessary_expenses |-> {Unnecessary1}],
      [incomes |-> {}, taxes |-> {}, expenses |-> {}, unnecessary_expenses |-> {}] }

IncomeForm == [member |-> "Nikkie", income_type |-> "Salary", description |-> "Raise",
               amount |-> 700]

TaxForm == [member |-> "Nikkie", description |-> "SDL", amount |-> 70]

ExpenseForm == [member |-> "Nikkie", category |-> "Utilities", description |-> "Water",
                amount |-> 250, is_recurring |-> FALSE, is_shared |-> TRUE, is_paid |-> TRUE,
                note |-> Null]

\* { ...data, month: selectedMonth }
WithMonth(data, month) ==
    [f \in DOMAIN data \cup {"month"} |-> IF f = "month" THEN month ELSE data[f]]

\* supabase.from(table).update(data).eq('id', id)
UpdateRow(store, table, id, data) ==
    [store EXCEPT ![table] =
        {IF r.id = id THEN [f \in DOMAIN r |-> IF f \in DOMAIN data THEN data[f] ELSE r[f]]
         ELSE r : r \in @}]

\* supabase.from(table).delete().eq('id', id)
DeleteRow(store, table, id) == [store EXCEPT ![table] = {r \in @ : r.id # id}]

Shown == <<incomes, taxes, expenses, unnecessaryExpenses>>

\* a call of one of the nine operations, up to the await of its write; the call
\* records the lists shown when it started
NewMutation(op, table, kind, id, data) ==
    [op |-> op, pc |-> "write", month |-> selectedMonth, toInsert |-> NoRows,
     source |-> NoRows, found |-> NotFetched, inserted |-> {}, failedAt |-> "none",
     carry |-> "none", ret |-> "pending", concurrent |-> FALSE,
     mutation |-> op, table |-> table, kind |-> kind, id |-> id, data |-> data,
     shown |-> Shown]

IsMutation(p) == "mutation" \in DOMAIN calls[p]

\* App renders the sections only while neither loading nor isCarryingOver
MutationCalled(op, table, kind, id, data) ==
    /\ CanStart
    /\ ~loading /\ ~isCarryingOver
    /\ StartCall(NewMutation(op, table, kind, id, data))
    /\ StoreUnchanged /\ ShownUnchanged /\ BalanceUnchanged
    /\ UNCHANGED <<selectedMonth, loading, error, isCarryingOver, carriedOverMonths,
                   failures, db0>>

IdsIn(list) == {list[i].id : i \in 1..Len(list)}

addIncome(data) == MutationCalled("addIncome", TABLES.INCOMES, "insert", Null, data)

deleteIncome(id) == MutationCalled("deleteIncome", TABLES.INCOMES, "delete", id, Null)

updateIncome(id, data) == MutationCalled("updateIncome", TABLES.INCOMES, "update", id, data)

addTax(data) == MutationCalled("addTax", TABLES.TAXES, "insert", Null, data)

deleteTax(id) == MutationCalled("deleteTax", TABLES.TAXES, "delete", id, Null)

updateTax(id, data) == MutationCalled("updateTax", TABLES.TAXES, "update", id, data)

addExpense(data) == MutationCalled("addExpense", TABLES.EXPENSES, "insert", Null, data)

deleteExpense(id) == MutationCalled("deleteExpense", TABLES.EXPENSES, "delete", id, Null)

updateExpense(id, data) == MutationCalled("updateExpense", TABLES.EXPENSES, "update", id, data)

\* the write returns without error; fetchData is awaited next and sets loading
\* and clears error before its first await
MutationWritten(p) ==
    /\ p \in Running
    /\ IsMutation(p) /\ calls[p].pc = "write"
    /\ LET c == calls[p]
       IN  CASE c.kind = "insert" ->
                  /\ db' = InsertRows(db, c.table, <<WithMonth(c.data, c.month)>>, nextId)
                  /\ nextId' = nextId + 1
             [] c.kind = "update" ->
                  /\ db' = UpdateRow(db, c.table, c.id, c.data)
                  /\ UNCHANGED nextId
             [] c.kind = "delete" ->
                  /\ db' = DeleteRow(db, c.table, c.id)
                  /\ UNCHANGED nextId
    /\ loading' = TRUE
    /\ error' = Null
    /\ calls' = [calls EXCEPT ![p].op = "fetchData", ![p].pc = "fetch"]
    /\ ShownUnchanged /\ BalanceUnchanged
    /\ UNCHANGED <<selectedMonth, isCarryingOver, carriedOverMonths, failures, db0>>

\* a failed write after which the rows of the written table are shown no more
MutationFailsClearing(p) ==
    /\ p \in Running
    /\ IsMutation(p) /\ calls[p].pc = "write"
    /\ CanFail
    /\ failures' = failures + 1
    /\ calls' = [calls EXCEPT ![p].pc = "done", ![p].failedAt = "write", ![p].ret = "false"]
    /\ incomes' = IF calls[p].table = TABLES.INCOMES THEN <<>> ELSE incomes
    /\ taxes' = IF calls[p].table = TABLES.TAXES THEN <<>> ELSE taxes
    /\ expenses' = IF calls[p].table = TABLES.EXPENSES THEN <<>> ELSE expenses
    /\ UNCHANGED unnecessaryExpenses
    /\ StoreUnchanged /\ BalanceUnchanged
    /\ UNCHANGED <<selectedMonth, loading, error, isCarryingOver, carriedOverMonths, db0>>

\* the write returns an error: the operation's catch returns false
MutationFails(p) ==
    /\ p \in Running
    /\ IsMutation(p) /\ calls[p].pc = "write"
    /\ CanFail
    /\ failures' = failures + 1
    /\ calls' = [calls EXCEPT ![p].pc = "done", ![p].failedAt = "write", ![p].ret = "false"]
    /\ StoreUnchanged /\ ShownUnchanged /\ BalanceUnchanged
    /\ UNCHANGED <<selectedMonth, loading, error, isCarryingOver, carriedOverMonths, db0>>

----------------------------------------------------------------------------
(* BalanceTracker: the schedule balance of an account for the month viewed *)

Mar2025 == <<"2", "0", "2", "5", "-", "0", "3">>

Nov2025 == <<"2", "0", "2", "5", "-", "1", "1">>

Jan2026 == <<"2", "0", "2", "6", "-", "0", "1">>

Jun2026 == <<"2", "0", "2", "6", "-", "0", "6">>

Feb2027 == <<"2", "0", "2", "7", "-", "0", "2">>

\* the month options run from December 2025 to December 2026
RECURSIVE MonthOptionsFrom(_, _)
MonthOptionsFrom(currentDate, endDate) ==
    IF currentDate.year * 12 + currentDate.month <= endDate.year * 12 + endDate.month
    THEN <<FormatYearMonth(currentDate)>>
         \o MonthOptionsFrom(SetMonth(currentDate, GetMonth(currentDate) + 1), endDate)
    ELSE <<>>

getBalanceMonthOptions == MonthOptionsFrom(MakeDate(2025, 11), MakeDate(2026, 11))

MonthOptionValues == {getBalanceMonthOptions[i] : i \in 1..Len(getBalanceMonthOptions)}

\* start_month is any month the form's month input gives
StartMonths == {Jan2025, Nov2025, Jan2026, Jun2026, Feb2027}

\* getCurrentBalanceMonth(): the month in which the page is opened
CurrentBalanceMonths == {Mar2025, Jun2026, Feb2027}

Accounts ==
    [id : {"acc1"}, initial_balance : {0, 1000, 2500, 12000},
     monthly_deduction : {0, 400, 1000, 3000}, start_month : StartMonths]

getBalanceForMonth(acc, month) ==
    calculateCurrentBalance(acc.initial_balance, acc.monthly_deduction, acc.start_month, month)

\* the number Infinity
Infinity == 999999

\* Math.ceil(currentBalance / account.monthly_deduction) for the month viewed
getMonthsRemaining(acc, viewMonth) ==
    IF acc.monthly_deduction <= 0 THEN Infinity
    ELSE LET currentBalance == getBalanceForMonth(acc, viewMonth)
         IN  IF currentBalance = NaN THEN NaN
             ELSE -FloorDiv(-currentBalance, acc.monthly_deduction)

\* the UTF-16 code unit of the characters month keys are made of
CharCode(c) == IF c = "-" THEN 45 ELSE 48 + DigitVal(c)

\* a <= b on JavaScript strings: code unit by code unit, a prefix comes first
RECURSIVE StringLeq(_, _)
StringLeq(a, b) ==
    IF a = <<>> THEN TRUE
    ELSE IF b = <<>> THEN FALSE
    ELSE IF a[1] # b[1] THEN CharCode(a[1]) < CharCode(b[1])
    ELSE StringLeq(Tail(a), Tail(b))

\* list.reduce((sum, e) => sum + Number(e.amount), 0)
RECURSIVE SumAmount(_)
SumAmount(list) == IF list = <<>> THEN 0 ELSE list[1].amount + SumAmount(Tail(list))

\* getTotalPaidUpToMonth leaving the month asked out
getTotalPaidBeforeMonth(paid, accountId, upToMonth) ==
    SumAmount(SelectSeq(paid, LAMBDA e : /\ e.balance_account_id = accountId
                                         /\ e.is_paid
                                         /\ StringLeq(e.month, upToMonth)
                                         /\ e.month # upToMonth))

getTotalPaidUpToMonth(paid, accountId, upToMonth) ==
    SumAmount(SelectSeq(paid, LAMBDA e : /\ e.balance_account_id = accountId
                                         /\ e.is_paid
                                         /\ StringLeq(e.month, upToMonth)))

\* getActualBalanceForMonth without Math.max
getActualBalanceForMonthUnfloored(paid, acc, month) ==
    acc.initial_balance - getTotalPaidUpToMonth(paid, acc.id, month)

getActualBalanceForMonth(paid, acc, month) ==
    Max(0, acc.initial_balance - getTotalPaidUpToMonth(paid, acc.id, month))

\* a / b on JavaScript numbers, kept as a fraction in lowest terms:
\* den = 0 stands for NaN (num = 0) and for Infinity and -Infinity (num = 1, -1)
RECURSIVE Gcd(_, _)
Gcd(a, b) == IF b = 0 THEN a ELSE Gcd(b, a % b)

Abs(a) == IF a < 0 THEN -a ELSE a

Sign(a) == IF a < 0 THEN -1 ELSE IF a = 0 THEN 0 ELSE 1

Divide(a, b) ==
    IF b = 0 THEN [num |-> Sign(a), den |-> 0]
    ELSE LET g == Gcd(Abs(a), Abs(b))
         IN  [num |-> Sign(b) * (a \div g), den |-> Abs(b) \div g]

\* q * n for a fraction q and a positive number n
Times(q, n) ==
    IF q.den = 0 THEN q
    ELSE LET g == Gcd(Abs(q.num * n), q.den)
         IN  [num |-> (q.num * n) \div g, den |-> q.den \div g]

\* the account card: progressPercentage of the grid
ProgressPercentage(acc, actual) ==
    Times(Divide(acc.initial_balance - actual, acc.initial_balance), 100)

\* one render of the account card for the month viewed
RenderCard(acc, month, paid) ==
    /\ projectedBalance' = getBalanceForMonth(acc, month)
    /\ actualBalance' = getActualBalanceForMonth(paid, acc, month)
    /\ progressPercentage' = ProgressPercentage(acc, getActualBalanceForMonth(paid, acc, month))

\* an expense as BalanceTracker receives it
PaidExpense(id, accountId, isPaid, month, amount) ==
    [id |-> id, member |-> "Hein", category |-> "Other", description |-> "Instalment",
     amount |-> amount, month |-> month, is_shared |-> FALSE, is_recurring |-> FALSE,
     is_paid |-> isPaid, include_vat |-> FALSE, note |-> Null,
     balance_account_id |-> accountId, created_at |-> id]

\* expenses before, in and after the months viewed: paid or not, linked to
\* the account, to another account or to none
PaidCandidates ==
    {PaidExpense(1, "acc1", TRUE, Nov2025, 300),
     PaidExpense(2, "acc1", TRUE, Jan2026, 500),
     PaidExpense(3, "acc1", FALSE, Jan2026, 700),
     PaidExpense(4, "acc2", TRUE, Jan2026, 900),
     PaidExpense(5, Null, TRUE, Jan2026, 1100),
     PaidExpense(6, "acc1", TRUE, Jun2026, 12000)}

\* the rows of a set as a list in id order
RECURSIVE ById(_)
ById(rows) ==
    IF rows = {} THEN <<>>
    ELSE LET first == CHOOSE r \in rows : \A q \in rows : r.id <= q.id
         IN  <<first>> \o ById(rows \ {first})

PaidLists == {ById(rows) : rows \in {R \in SUBSET PaidCandidates : Cardinality(R) <= MaxPaid}}

\* the accounts the cards are rendered for
CardAccounts ==
    [id : {"acc1"}, initial_balance : {0, 1000, 12000}, monthly_deduction : {1000},
     start_month : {Jan2026}]

\* the parent renders BalanceTracker with another list of expenses
ReceivePaidExpenses(list) ==
    /\ list \in PaidLists
    /\ list # paidExpenses
    /\ paidExpenses' = list
    /\ RenderCard(account, selectedViewMonth, list)
    /\ UNCHANGED <<account, selectedViewMonth>>
    /\ UNCHANGED outsideBalance

\* the view month select of BalanceTracker
SetSelectedViewMonth(m) ==
    /\ m \in MonthOptionValues
    /\ m # selectedViewMonth
    /\ selectedViewMonth' = m
    /\ RenderCard(account, m, paidExpenses)
    /\ UNCHANGED <<account, paidExpenses>>
    /\ UNCHANGED outsideBalance

\* handleSubmit with editingId set: the account comes back with the form's values
UpdateAccount(data) ==
    /\ data \in Accounts
    /\ data # account
    /\ account' = data
    /\ RenderCard(data, selectedViewMonth, paidExpenses)
    /\ UNCHANGED <<selectedViewMonth, paidExpenses>>
    /\ UNCHANGED outsideBalance

----------------------------------------------------------------------------
(* The summaries useBudget returns with the rows it shows *)

\* calculateMemberSummary with 15% VAT added to the expenses flagged include_vat
calculateMemberSummaryWithVat(member, shownIncomes, shownTaxes, shownExpenses, shownUnnecessary) ==
    LET memberIncomes == SelectSeq(shownIncomes, LAMBDA i : i.member = member)
        memberTaxes == SelectSeq(shownTaxes, LAMBDA t : t.member = member)
        memberExpenses == SelectSeq(shownExpenses, LAMBDA e : e.member = member)
        memberUnnecessaryExpenses == SelectSeq(shownUnnecessary, LAMBDA u : u.member = member)
        grossIncome == SumAmount(SelectSeq(memberIncomes, LAMBDA i : i.income_type = "Salary"))
        otherIncome == SumAmount(SelectSeq(memberIncomes, LAMBDA i : i.income_type = "Other"))
        totalTaxes == SumAmount(memberTaxes)
        totalExpenses ==
            SumAmount(memberExpenses)
            + (SumAmount(SelectSeq(memberExpenses, LAMBDA e : e.include_vat)) * 15) \div 100
        totalUnnecessaryExpenses == SumAmount(memberUnnecessaryExpenses)
        netIncome == grossIncome - totalTaxes + otherIncome
    IN  [member |-> member, grossIncome |-> grossIncome, otherIncome |-> otherIncome,
         totalIncome |-> grossIncome + otherIncome, totalTaxes |-> totalTaxes,
         netIncome |-> netIncome, totalExpenses |-> totalExpenses,
         totalUnnecessaryExpenses |-> totalUnnecessaryExpenses,
         remainingBalance |-> netIncome - totalExpenses - totalUnnecessaryExpenses]

calculateMemberSummary(member, shownIncomes, shownTaxes, shownExpenses, shownUnnecessary) ==
    LET memberIncomes == SelectSeq(shownIncomes, LAMBDA i : i.member = member)
        memberTaxes == SelectSeq(shownTaxes, LAMBDA t : t.member = member)
        memberExpenses == SelectSeq(shownExpenses, LAMBDA e : e.member = member)
        memberUnnecessaryExpenses == SelectSeq(shownUnnecessary, LAMBDA u : u.member = member)
        grossIncome == SumAmount(SelectSeq(memberIncomes, LAMBDA i : i.income_type = "Salary"))
        otherIncome == SumAmount(SelectSeq(memberIncomes, LAMBDA i : i.income_type = "Other"))
        totalTaxes == SumAmount(memberTaxes)
        totalExpenses == SumAmount(memberExpenses)
        totalUnnecessaryExpenses == SumAmount(memberUnnecessaryExpenses)
        netIncome == grossIncome - totalTaxes + otherIncome
    IN  [member |-> member, grossIncome |-> grossIncome, otherIncome |-> otherIncome,
         totalIncome |-> grossIncome + otherIncome, totalTaxes |-> totalTaxes,
         netIncome |-> netIncome, totalExpenses |-> totalExpenses,
         totalUnnecessaryExpenses |-> totalUnnecessaryExpenses,
         remainingBalance |-> netIncome - totalExpenses - totalUnnecessaryExpenses]

\* calculateHouseholdSummary taking the discretionary total of Nikkie alone
calculateHouseholdSummaryOneSided(shownIncomes, shownTaxes, shownExpenses, shownUnnecessary) ==
    LET nikkieSummary == calculateMemberSummary("Nikkie", shownIncomes, shownTaxes,
                                                shownExpenses, shownUnnecessary)
        heinSummary == calculateMemberSummary("Hein", shownIncomes, shownTaxes,
                                              shownExpenses, shownUnnecessary)
        grossIncome == nikkieSummary.grossIncome + heinSummary.grossIncome
        otherIncome == nikkieSummary.otherIncome + heinSummary.otherIncome
        totalTaxes == nikkieSummary.totalTaxes + heinSummary.totalTaxes
        totalExpenses == nikkieSummary.totalExpenses + heinSummary.totalExpenses
        totalUnnecessaryExpenses == nikkieSummary.totalUnnecessaryExpenses
        netIncome == grossIncome - totalTaxes + otherIncome
    IN  [grossIncome |-> grossIncome, otherIncome |-> otherIncome,
         totalIncome |-> nikkieSummary.totalIncome + heinSummary.totalIncome,
         totalTaxes |-> totalTaxes, netIncome |-> netIncome,
         totalExpenses |-> totalExpenses,
         totalUnnecessaryExpenses |-> totalUnnecessaryExpenses,
         remainingBalance |-> netIncome - totalExpenses - totalUnnecessaryExpenses,
         nikkieSummary |-> nikkieSummary, heinSummary |-> heinSummary]

calculateHouseholdSummary(shownIncomes, shownTaxes, shownExpenses, shownUnnecessary) ==
    LET nikkieSummary == calculateMemberSummary("Nikkie", shownIncomes, shownTaxes,
                                                shownExpenses, shownUnnecessary)
        heinSummary == calculateMemberSummary("Hein", shownIncomes, shownTaxes,
                                              shownExpenses, shownUnnecessary)
        grossIncome == nikkieSummary.grossIncome + heinSummary.grossIncome
        otherIncome == nikkieSummary.otherIncome + heinSummary.otherIncome
        totalTaxes == nikkieSummary.totalTaxes + heinSummary.totalTaxes
        totalExpenses == nikkieSummary.totalExpenses + heinSummary.totalExpenses
        totalUnnecessaryExpenses ==
            nikkieSummary.totalUnnecessaryExpenses + heinSummary.totalUnnecessaryExpenses
        netIncome == grossIncome - totalTaxes + otherIncome
    IN  [grossIncome |-> grossIncome, otherIncome |-> otherIncome,
         totalIncome |-> nikkieSummary.totalIncome + heinSummary.totalIncome,
         totalTaxes |-> totalTaxes, netIncome |-> netIncome,
         totalExpenses |-> totalExpenses,
         totalUnnecessaryExpenses |-> totalUnnecessaryExpenses,
         remainingBalance |-> netIncome - totalExpenses - totalUnnecessaryExpenses,
         nikkieSummary |-> nikkieSummary, heinSummary |-> heinSummary]

\* the summary of one render of the hook
summary == calculateHouseholdSummary(incomes, taxes, expenses, unnecessaryExpenses)

\* rows of January 2025 of both members: salary and other income, taxes,
\* expenses with and without VAT, discretionary expenses
SummaryIncomes ==
    {[id |-> 11, member |-> "Nikkie", income_type |-> "Salary", description |-> "Job",
      amount |-> 20000, month |-> Jan2025, created_at |-> 11],
     [id |-> 12, member |-> "Nikkie", income_type |-> "Other", description |-> "Bonus",
      amount |-> 700, month |-> Jan2025, created_at |-> 12],
     [id |-> 13, member |-> "Hein", income_type |-> "Salary", description |-> "Job",
      amount |-> 9000, month |-> Jan2025, created_at |-> 13]}

SummaryTaxes ==
    {[id |-> 14, member |-> "Nikkie", description |-> "PAYE", amount |-> 3000,
      month |-> Jan2025, created_at |-> 14],
     [id |-> 15, member |-> "Hein", description |-> "PAYE", amount |-> 1100,
      month |-> Jan2025, created_at |-> 15]}

SummaryExpense(id, member, amount, includeVat) ==
    [id |-> id, member |-> member, category |-> "Groceries", description |-> "Food",
     amount |-> amount, month |-> Jan2025, is_shared |-> FALSE, is_recurring |-> FALSE,
     is_paid |-> FALSE, include_vat |-> includeVat, note |-> Null,
     balance_account_id |-> Null, created_at |-> id]

SummaryExpenses ==
    {SummaryExpense(16, "Nikkie", 1500, FALSE), SummaryExpense(17, "Nikkie", 1000, TRUE),
     SummaryExpense(18, "Hein", 200, FALSE)}

SummaryUnnecessary ==
    {[id |-> 19, member |-> "Nikkie", description |-> "Snacks", amount |-> 30,
      month |-> Jan2025, note |-> Null, created_at |-> 19],
     [id |-> 20, member |-> "Hein", description |-> "Games", amount |-> 50,
      month |-> Jan2025, note |-> Null, created_at |-> 20]}

\* stores whose January holds at least one income, tax or expense
SummaryStores ==
    { [incomes |-> is, taxes |-> ts, expenses |-> es, unnecessary_expenses |-> us] :
        is \in SUBSET SummaryIncomes, ts \in SUBSET SummaryTaxes,
        es \in SUBSET SummaryExpenses, us \in SUBSET SummaryUnnecessary }
    \ { [incomes |-> {}, taxes |-> {}, expenses |-> {}, unnecessary_expenses |-> us] :
          us \in SUBSET SummaryUnnecessary }

----------------------------------------------------------------------------
(* CarryOverExpenses: the dialog of the manual carry-over *)

Expense3 == [id |-> 5, member |-> "Hein", category |-> "Insurance", description |-> "Car",
             amount |-> 800, month |-> Dec2024, is_shared |-> TRUE, is_recurring |-> TRUE,
             is_paid |-> FALSE, include_vat |-> FALSE, note |-> Null,
             balance_account_id |-> Null, created_at |-> 5]

\* the lists App loads for the previous month
PreviousMonthLists == {ById(rows) : rows \in SUBSET {Expense1, Expense2, Expense3}}

IdsOf(list) == {list[i].id : i \in 1..Len(list)}

\* previousMonthExpenses.filter((e) => e.is_recurring)
recurringExpenses == SelectSeq(previousMonthExpenses, LAMBDA e : e.is_recurring)

\* the banner button with every expense pre-selected
OpenDialogSelectingAll ==
    /\ ~showDialog
    /\ previousMonthExpenses # <<>>
    /\ showDialog' = TRUE
    /\ selectedExpenses' = IdsOf(previousMonthExpenses)
    /\ lastHandler' = "openDialog"
    /\ UNCHANGED <<previousMonthExpenses, submitting, carryRequests>>
    /\ UNCHANGED outsideDialog

\* the banner button: setShowDialog(true), then the effect on showDialog
OpenDialog ==
    /\ ~showDialog
    /\ previousMonthExpenses # <<>>
    /\ showDialog' = TRUE
    /\ selectedExpenses' = IF IdsOf(recurringExpenses) # {} THEN IdsOf(recurringExpenses)
                           ELSE selectedExpenses
    /\ lastHandler' = "openDialog"
    /\ UNCHANGED <<previousMonthExpenses, submitting, carryRequests>>
    /\ UNCHANGED outsideDialog

\* the overlay, the close button or Cancel: setShowDialog(false), then the effect
CloseDialog ==
    /\ showDialog
    /\ showDialog' = FALSE
    /\ selectedExpenses' = {}
    /\ lastHandler' = "closeDialog"
    /\ UNCHANGED <<previousMonthExpenses, submitting, carryRequests>>
    /\ UNCHANGED outsideDialog

toggleExpense(id) ==
    /\ showDialog
    /\ id \in IdsOf(previousMonthExpenses)
    /\ selectedExpenses' = IF id \in selectedExpenses THEN selectedExpenses \ {id}
                           ELSE selectedExpenses \cup {id}
    /\ lastHandler' = "toggleExpense"
    /\ UNCHANGED <<previousMonthExpenses, showDialog, submitting, carryRequests>>
    /\ UNCHANGED outsideDialog

\* toggleAll(checked) of the set sel over the list shown
ToggleAllResult(checked, list) == IF checked THEN IdsOf(list) ELSE {}

\* the Select All / Deselect All button
toggleAll ==
    /\ showDialog
    /\ selectedExpenses' =
          ToggleAllResult(Cardinality(selectedExpenses) < Len(previousMonthExpenses),
                          previousMonthExpenses)
    /\ lastHandler' = "toggleAll"
    /\ UNCHANGED <<previousMonthExpenses, showDialog, submitting, carryRequests>>
    /\ UNCHANGED outsideDialog

\* the Select Recurring button, shown when there are recurring expenses
selectRecurring ==
    /\ showDialog
    /\ recurringExpenses # <<>>
    /\ selectedExpenses' = IdsOf(recurringExpenses)
    /\ lastHandler' = "selectRecurring"
    /\ UNCHANGED <<previousMonthExpenses, showDialog, submitting, carryRequests>>
    /\ UNCHANGED outsideDialog

\* the confirm button up to the await of onCarryOver
handleCarryOver ==
    /\ showDialog
    /\ ~submitting
    /\ Len(carryRequests) < MaxRequests
    /\ lastHandler' = "handleCarryOver"
    /\ IF selectedExpenses = {}
       THEN UNCHANGED <<submitting, carryRequests>>
       ELSE /\ submitting' = TRUE
            /\ carryRequests' =
                  Append(carryRequests,
                         IdsOf(SelectSeq(previousMonthExpenses,
                                         LAMBDA e : e.id \in selectedExpenses)))
    /\ UNCHANGED <<previousMonthExpenses, showDialog, selectedExpenses>>
    /\ UNCHANGED outsideDialog

\* onCarryOver returns
CarryOverReturned(success) ==
    /\ submitting
    /\ submitting' = FALSE
    /\ IF success
       THEN showDialog' = FALSE /\ selectedExpenses' = {}
       ELSE UNCHANGED <<showDialog, selectedExpenses>>
    /\ lastHandler' = "carryOverReturned"
    /\ UNCHANGED <<previousMonthExpenses, carryRequests>>
    /\ UNCHANGED outsideDialog

\* another month is selected: the page shows the spinner, the dialog is
\* mounted again and App loads the expenses of the new previous month
LoadPreviousExpenses(list) ==
    /\ list \in PreviousMonthLists
    /\ list # previousMonthExpenses
    /\ ~submitting
    /\ previousMonthExpenses' = list
    /\ showDialog' = FALSE
    /\ selectedExpenses' = {}
    /\ lastHandler' = "mount"
    /\ UNCHANGED <<submitting, carryRequests>>
    /\ UNCHANGED outsideDialog

InitDialog(lists) ==
    /\ previousMonthExpenses \in lists
    /\ showDialog = FALSE
    /\ selectedExpenses = {}
    /\ submitting = FALSE
    /\ carryRequests = <<>>
    /\ lastHandler = "mount"

----------------------------------------------------------------------------
(* useBalances: the balance accounts in the store and in the hook *)

BalanceTables == {"balance_accounts", "balance_history", "expenses"}

Dec2025 == <<"2", "0", "2", "5", "-", "1", "2">>

AccountRow(id, name, initialBalance, monthlyDeduction, startMonth, now) ==
    [id |-> id, name |-> name, description |-> "", initial_balance |-> initialBalance,
     current_balance |-> initialBalance, monthly_deduction |-> monthlyDeduction,
     start_month |-> startMonth, created_at |-> now]

Account1 == AccountRow("acc1", "Car loan", 12000, 1000, Jan2026, 1)

Account2 == AccountRow("acc2", "Home loan", 2500, 400, Nov2025, 2)

History1 == [id |-> "h1", account_id |-> "acc1", month |-> Jan2026, opening_balance |-> 12000,
             deduction |-> 1000, closing_balance |-> 11000, created_at |-> 3]

History2 == [id |-> "h2", account_id |-> "acc2", month |-> Dec2025, opening_balance |-> 2100,
             deduction |-> 400, closing_balance |-> 1700, created_at |-> 4]

\* stores that respect the foreign keys: history and expenses reference
\* accounts that exist, or no account
InitialBalanceStores ==
    { [balance_accounts |-> as,
       balance_history |-> {h \in hs : h.account_id \in {a.id : a \in as}},
       expenses |-> {e \in PaidCandidates :
                        e.balance_account_id \in {a.id : a \in as} \cup {Null}}] :
        as \in {{}, {Account1}, {Account1, Account2}},
        hs \in {{History1, History2}} }

\* the ids the store gives to new accounts
NewAccountIds == <<"acc3", "acc4", "acc5", "acc6", "acc7">>

\* what the account form submits
AccountForms ==
    {[name |-> "Student loan", description |-> "", initial_balance |-> 1000,
      monthly_deduction |-> 400, start_month |-> Jun2026]}

\* the place of a name in the order of the names used
NameRank(name) == CASE name = "Car loan" -> 1 [] name = "Home loan" -> 2 [] name = "Student loan" -> 3

\* select('*').order('name'); accounts of one name come in creation order
RECURSIVE OrderByName(_)
OrderByName(rows) ==
    IF rows = {} THEN <<>>
    ELSE LET first == CHOOSE r \in rows :
                          \A q \in rows :
                              \/ NameRank(r.name) < NameRank(q.name)
                              \/ (NameRank(r.name) = NameRank(q.name)
                                    /\ r.created_at <= q.created_at)
         IN  <<first>> \o OrderByName(rows \ {first})

\* select('*').order('month', { ascending: false }); rows of one month in creation order
RECURSIVE OrderByMonthDescending(_)
OrderByMonthDescending(rows) ==
    IF rows = {} THEN <<>>
    ELSE LET first == CHOOSE r \in rows :
                          \A q \in rows :
                              \/ (StringLeq(q.month, r.month) /\ q.month # r.month)
                              \/ (q.month = r.month /\ r.created_at <= q.created_at)
         IN  <<first>> \o OrderByMonthDescending(rows \ {first})

\* the month useBalances computes current_balance for
BalancesCurrentMonth == Jun2026

\* the map of fetchData: each account with its current_balance computed
WithCurrentBalance(rows) ==
    [i \in 1..Len(rows) |->
        [rows[i] EXCEPT !.current_balance =
            calculateCurrentBalance(rows[i].initial_balance, rows[i].monthly_deduction,
                                    rows[i].start_month, BalancesCurrentMonth)]]

\* a call of useBalances: the id and the form data it was given, the
\* accounts its select returned, how it ended and the handler that awaited it
NewBalanceCall(op, pc, id, data, caller) ==
    [op |-> op, pc |-> pc, id |-> id, data |-> data, fetched |-> <<>>,
     ret |-> "pending", caller |-> caller, wrote |-> FALSE]

NoForm == [name |-> "Car loan", description |-> "", initial_balance |-> 0,
           monthly_deduction |-> 0, start_month |-> Dec2025]

RunningBalanceCalls == {p \in 1..Len(balanceCalls) : balanceCalls[p].pc # "done"}

CanStartBalanceCall ==
    /\ Len(balanceCalls) < MaxCalls
    /\ Cardinality(RunningBalanceCalls) < MaxInFlight

CanFailBalance == balanceFailures < MaxFailures

ShownAccountIds == {accounts[i].id : i \in 1..Len(accounts)}

\* handleSubmit without editingId: addAccount up to the await of the insert
AddAccountCalled(data) ==
    /\ CanStartBalanceCall
    /\ data \in AccountForms
    /\ balanceCalls' = Append(balanceCalls,
                              NewBalanceCall("addAccount", "insert", Null, data, "handleSubmit"))
    /\ UNCHANGED <<balanceStore, balanceNextId, accounts, history, balancesLoading,
                   balancesError, balanceFailures, balanceStore0>>
    /\ UNCHANGED outsideAccounts

\* handleSubmit with editingId: updateAccount up to the await of the update
UpdateAccountCalled(id, data) ==
    /\ CanStartBalanceCall
    /\ id \in ShownAccountIds
    /\ data \in AccountForms
    /\ balanceCalls' = Append(balanceCalls,
                              NewBalanceCall("updateAccount", "update", id, data, "handleSubmit"))
    /\ UNCHANGED <<balanceStore, balanceNextId, accounts, history, balancesLoading,
                   balancesError, balanceFailures, balanceStore0>>
    /\ UNCHANGED outsideAccounts

\* handleDelete after the confirm: deleteAccount up to the await of the
\* delete of the history
DeleteAccountCalled(id) ==
    /\ CanStartBalanceCall
    /\ id \in ShownAccountIds
    /\ balanceCalls' = Append(balanceCalls,
                              NewBalanceCall("deleteAccount", "delete_history", id, NoForm,
                                             "handleDelete"))
    /\ UNCHANGED <<balanceStore, balanceNextId, accounts, history, balancesLoading,
                   balancesError, balanceFailures, balanceStore0>>
    /\ UNCHANGED outsideAccounts

\* insert into balance_accounts: a fresh id, created_at set by the store
InsertAccountRow(store, data, id, now) ==
    [store EXCEPT !.balance_accounts =
        @ \cup {[id |-> id, name |-> data.name, description |-> data.description,
                 initial_balance |-> data.initial_balance,
                 current_balance |-> data.initial_balance,
                 monthly_deduction |-> data.monthly_deduction,
                 start_month |-> data.start_month, created_at |-> now]}]

\* update balance_accounts set the columns of data where id = id
UpdateAccountRow(store, id, data) ==
    [store EXCEPT !.balance_accounts =
        {IF a.id = id
         THEN [a EXCEPT !.name = data.name, !.description = data.description,
                        !.initial_balance = data.initial_balance,
                        !.monthly_deduction = data.monthly_deduction,
                        !.start_month = data.start_month]
         ELSE a : a \in @}]

\* delete from balance_history where account_id = id
DeleteHistoryRows(store, id) ==
    [store EXCEPT !.balance_history = {h \in @ : h.account_id # id}]

\* the delete of the account taking the expenses that reference it along
DeleteAccountRowWithExpenses(store, id) ==
    [store EXCEPT !.balance_accounts = {a \in @ : a.id # id},
                  !.balance_history = {h \in @ : h.account_id # id},
                  !.expenses = {e \in @ : e.balance_account_id # id}]

\* delete from balance_accounts where id = id: balance_history rows go with
\* the account (ON DELETE CASCADE), expenses keep their row and lose the
\* reference (ON DELETE SET NULL)
DeleteAccountRow(store, id) ==
    [store EXCEPT !.balance_accounts = {a \in @ : a.id # id},
                  !.balance_history = {h \in @ : h.account_id # id},
                  !.expenses = {IF e.balance_account_id = id
                                THEN [e EXCEPT !.balance_account_id = Null]
                                ELSE e : e \in @}]

\* the start of fetchData inside an operation: setLoading(true), setError(null)
BalancesFetchStarts(p) ==
    /\ balancesLoading' = TRUE
    /\ balancesError' = Null
    /\ balanceCalls' = [balanceCalls EXCEPT ![p].pc = "accounts", ![p].wrote = TRUE]

\* the insert of addAccount returns without error
AccountInserted(p) ==
    /\ p \in RunningBalanceCalls
    /\ balanceCalls[p].pc = "insert"
    /\ balanceStore' = InsertAccountRow(balanceStore, balanceCalls[p].data,
                                        NewAccountIds[balanceNextId], 10 + balanceNextId)
    /\ balanceNextId' = balanceNextId + 1
    /\ BalancesFetchStarts(p)
    /\ UNCHANGED <<accounts, history, balanceFailures, balanceStore0>>
    /\ UNCHANGED outsideAccounts

\* the update of updateAccount returns without error
AccountUpdated(p) ==
    /\ p \in RunningBalanceCalls
    /\ balanceCalls[p].pc = "update"
    /\ balanceStore' = UpdateAccountRow(balanceStore, balanceCalls[p].id, balanceCalls[p].data)
    /\ BalancesFetchStarts(p)
    /\ UNCHANGED <<balanceNextId, accounts, history, balanceFailures, balanceStore0>>
    /\ UNCHANGED outsideAccounts

\* the delete of the history returns; its result is not looked at
HistoryDeleted(p, ok) ==
    /\ p \in RunningBalanceCalls
    /\ balanceCalls[p].pc = "delete_history"
    /\ IF ok
       THEN /\ balanceStore' = DeleteHistoryRows(balanceStore, balanceCalls[p].id)
            /\ UNCHANGED balanceFailures
       ELSE /\ CanFailBalance
            /\ balanceFailures' = balanceFailures + 1
            /\ UNCHANGED balanceStore
    /\ balanceCalls' = [balanceCalls EXCEPT ![p].pc = "delete_account"]
    /\ UNCHANGED <<balanceNextId, accounts, history, balancesLoading, balancesError,
                   balanceStore0>>
    /\ UNCHANGED outsideAccounts

\* the delete of the account returns without error
AccountDeleted(p) ==
    /\ p \in RunningBalanceCalls
    /\ balanceCalls[p].pc = "delete_account"
    /\ balanceStore' = DeleteAccountRow(balanceStore, balanceCalls[p].id)
    /\ BalancesFetchStarts(p)
    /\ UNCHANGED <<balanceNextId, accounts, history, balanceFailures, balanceStore0>>
    /\ UNCHANGED outsideAccounts

\* the insert, the update or the delete of the account returns an error:
\* the operation throws it to the handler that awaits it
BalanceWriteFails(p) ==
    /\ p \in RunningBalanceCalls
    /\ balanceCalls[p].pc \in {"insert", "update", "delete_account"}
    /\ CanFailBalance
    /\ balanceFailures' = balanceFailures + 1
    /\ balanceCalls' = [balanceCalls EXCEPT ![p].pc = "done", ![p].ret = "thrown"]
    /\ UNCHANGED <<balanceStore, balanceNextId, accounts, history, balancesLoading,
                   balancesError, balanceStore0>>
    /\ UNCHANGED outsideAccounts

\* fetchData: the select of the accounts returns
BalancesAccountsFetched(p) ==
    /\ p \in RunningBalanceCalls
    /\ balanceCalls[p].pc = "accounts"
    /\ balanceCalls' = [balanceCalls EXCEPT
                            ![p].pc = "history",
                            ![p].fetched = OrderByName(balanceStore.balance_accounts)]
    /\ UNCHANGED <<balanceStore, balanceNextId, accounts, history, balancesLoading,
                   balancesError, balanceFailures, balanceStore0>>
    /\ UNCHANGED outsideAccounts

\* fetchData: the select of the history returns; both lists are set
BalancesHistoryFetched(p) ==
    /\ p \in RunningBalanceCalls
    /\ balanceCalls[p].pc = "history"
    /\ accounts' = WithCurrentBalance(balanceCalls[p].fetched)
    /\ history' = OrderByMonthDescending(balanceStore.balance_history)
    /\ balancesLoading' = FALSE
    /\ balanceCalls' = [balanceCalls EXCEPT ![p].pc = "done", ![p].ret = "void"]
    /\ UNCHANGED <<balanceStore, balanceNextId, balancesError, balanceFailures, balanceStore0>>
    /\ UNCHANGED outsideAccounts

\* fetchData: one of its selects returns an error; catch and finally
BalancesFetchFails(p) ==
    /\ p \in RunningBalanceCalls
    /\ balanceCalls[p].pc \in {"accounts", "history"}
    /\ CanFailBalance
    /\ balanceFailures' = balanceFailures + 1
    /\ balancesError' = "Failed to load balance data"
    /\ balancesLoading' = FALSE
    /\ balanceCalls' = [balanceCalls EXCEPT ![p].pc = "done", ![p].ret = "void"]
    /\ UNCHANGED <<balanceStore, balanceNextId, accounts, history, balanceStore0>>
    /\ UNCHANGED outsideAccounts

\* useBalances after its first render: the effect has called fetchData
InitAccounts(stores) ==
    /\ balanceStore \in stores
    /\ balanceStore0 = balanceStore
    /\ balanceNextId = 1
    /\ accounts = <<>>
    /\ history = <<>>
    /\ balancesLoading = TRUE
    /\ balancesError = Null
    /\ balanceCalls = <<NewBalanceCall("fetchData", "accounts", Null, NoForm, "useEffect")>>
    /\ balanceFailures = 0

EmptyBalanceStore == [t \in BalanceTables |-> {}]

----------------------------------------------------------------------------
(* The month utilities: getPreviousMonth and calculateCurrentBalance on a key *)

\* years the clock, the month selector and the month input give
KeyYears ==
    {<<"1", "9", "7", "0">>, <<"1", "9", "9", "9">>, <<"2", "0", "0", "0">>,
     <<"2", "0", "2", "4">>, <<"2", "0", "2", "5">>, <<"2", "0", "2", "6">>,
     <<"2", "0", "2", "7">>, <<"2", "0", "9", "9">>}

ValidMonthKeys == {y \o <<"-">> \o PadStart2(NatToString(n)) : y \in KeyYears, n \in 1..12}

\* text that a month column or a caller can hold and that is no month key
MalformedMonthKeys ==
    {<<"2", "0", "2", "5", "-", "1", "3">>, <<"2", "0", "2", "5", "-", "0", "0">>,
     <<"2", "0", "2", "5", "-", "1">>, <<"a", "b", "c">>, <<"2", "0", "2", "5">>, <<>>}

MonthKeys == ValidMonthKeys \cup MalformedMonthKeys

\* the balance of an account of 12000 less 1000 a month that starts in the key
KeyBalance(key) == calculateCurrentBalance(12000, 1000, key, Jan2026)

\* the utilities are called with another key
ApplyMonthUtilities(key) ==
    /\ key \in MonthKeys
    /\ key # monthKey
    /\ monthKey' = key
    /\ previousOfKey' = getPreviousMonth(key)
    /\ keyBalance' = KeyBalance(key)
    /\ UNCHANGED outsideMonth

InitMonth(keys) ==
    /\ monthKey \in keys
    /\ previousOfKey = getPreviousMonth(monthKey)
    /\ keyBalance = KeyBalance(monthKey)

----------------------------------------------------------------------------
(* Specifications *)

\* useBudget after its first render: the effect has called fetchData
InitBudget(stores) ==
    /\ db \in stores
    /\ db0 = db
    /\ nextId = FirstFreeId
    /\ selectedMonth = Jan2025
    /\ incomes = <<>>
    /\ taxes = <<>>
    /\ expenses = <<>>
    /\ unnecessaryExpenses = <<>>
    /\ loading = TRUE
    /\ error = Null
    /\ isCarryingOver = FALSE
    /\ carriedOverMonths = {}
    /\ calls = <<NewCall("fetchData", selectedMonth, NoRows, "fetch")>>
    /\ failures = 0

InitBalance(cards, months, paidLists) ==
    /\ account \in cards
    /\ selectedViewMonth \in months
    /\ paidExpenses \in paidLists
    /\ projectedBalance = getBalanceForMonth(account, selectedViewMonth)
    /\ actualBalance = getActualBalanceForMonth(paidExpenses, account, selectedViewMonth)
    /\ progressPercentage = ProgressPercentage(account, actualBalance)

Init ==
    /\ InitBudget(InitialStores)
    /\ InitBalance({[id |-> "acc1", initial_balance |-> 12000, monthly_deduction |-> 1000,
                     start_month |-> Jan2025]}, {Mar2025}, {<<>>})
    /\ InitMonth({Jan2025})
    /\ InitDialog({<<>>})
    /\ InitAccounts({EmptyBalanceStore})
    /\ InitPeer({NoPeer})

Next ==
    \/ \E m \in Months : SelectMonth(m)
    \/ \E chosen \in SUBSET db[TABLES.EXPENSES] : CarryOverExpensesCalled(chosen)
    \/ \E p \in 1..Len(calls) : FetchDataFetched(p)
    \/ \E p \in 1..Len(calls) : FetchDataFails(p)
    \/ \E p \in 1..Len(calls) : CarryFetched(p)
    \/ \E p \in 1..Len(calls) : CarryFetchFails(p)
    \/ \E p \in 1..Len(calls) : CarryInserted(p)
    \/ \E p \in 1..Len(calls) : CarryInsertFails(p)
    \/ \E p \in 1..Len(calls), unnecessaryOk \in BOOLEAN : CarryRefetched(p, unnecessaryOk)
    \/ \E p \in 1..Len(calls) : CarryRefetchFails(p)
    \/ \E p \in 1..Len(calls) : CarryOverExpensesInserted(p)
    \/ \E p \in 1..Len(calls) : CarryOverExpensesFails(p)
    \/ \E p \in 1..Len(calls), outcome \in RefetchOutcomes :
          CarryOverExpensesRefetched(p, outcome)

Spec == Init /\ [][Next]_vars

\* the balance page alone, over every account and view month
InitProjection ==
    /\ InitBudget({[t \in TableNames |-> {}]})
    /\ InitBalance(Accounts, CurrentBalanceMonths \cup MonthOptionValues, {<<>>})
    /\ InitMonth({Jan2025})
    /\ InitDialog({<<>>})
    /\ InitAccounts({EmptyBalanceStore})
    /\ InitPeer({NoPeer})

NextProjection ==
    \/ \E m \in MonthOptionValues : SetSelectedViewMonth(m)
    \/ \E data \in Accounts : UpdateAccount(data)

SpecProjection == InitProjection /\ [][NextProjection]_vars

\* the account cards of the balance page, over the expenses it is given
InitCards ==
    /\ InitBudget({[t \in TableNames |-> {}]})
    /\ InitBalance(CardAccounts, CurrentBalanceMonths \cup MonthOptionValues, PaidLists)
    /\ InitMonth({Jan2025})
    /\ InitDialog({<<>>})
    /\ InitAccounts({EmptyBalanceStore})
    /\ InitPeer({NoPeer})

NextCards ==
    \/ \E m \in MonthOptionValues : SetSelectedViewMonth(m)
    \/ \E data \in CardAccounts : UpdateAccount(data)
    \/ \E list \in PaidLists : ReceivePaidExpenses(list)

SpecCards == InitCards /\ [][NextCards]_vars

\* the month utilities alone, over well-formed and malformed keys
InitMonths ==
    /\ InitBudget({[t \in TableNames |-> {}]})
    /\ InitBalance({[id |-> "acc1", initial_balance |-> 12000, monthly_deduction |-> 1000,
                     start_month |-> Jan2025]}, {Mar2025}, {<<>>})
    /\ InitMonth(MonthKeys)
    /\ InitDialog({<<>>})
    /\ InitAccounts({EmptyBalanceStore})
    /\ InitPeer({NoPeer})

NextMonths == \E key \in MonthKeys : ApplyMonthUtilities(key)

SpecMonths == InitMonths /\ [][NextMonths]_vars

\* the load of a month that holds rows, for the summaries
InitSummary ==
    /\ InitBudget(SummaryStores)
    /\ InitBalance({[id |-> "acc1", initial_balance |-> 12000, monthly_deduction |-> 1000,
                     start_month |-> Jan2025]}, {Mar2025}, {<<>>})
    /\ InitMonth({Jan2025})
    /\ InitDialog({<<>>})
    /\ InitAccounts({EmptyBalanceStore})
    /\ InitPeer({NoPeer})

NextSummary == \E p \in 1..Len(calls) : FetchDataFetched(p)

SpecSummary == InitSummary /\ [][NextSummary]_vars

\* the dialog of the manual carry-over alone
InitCarryDialog ==
    /\ InitBudget({[t \in TableNames |-> {}]})
    /\ InitBalance({[id |-> "acc1", initial_balance |-> 12000, monthly_deduction |-> 1000,
                     start_month |-> Jan2025]}, {Mar2025}, {<<>>})
    /\ InitMonth({Jan2025})
    /\ InitDialog(PreviousMonthLists)
    /\ InitAccounts({EmptyBalanceStore})
    /\ InitPeer({NoPeer})

NextCarryDialog ==
    \/ OpenDialog
    \/ CloseDialog
    \/ \E id \in IdsOf(previousMonthExpenses) : toggleExpense(id)
    \/ toggleAll
    \/ selectRecurring
    \/ handleCarryOver
    \/ \E success \in BOOLEAN : CarryOverReturned(success)
    \/ \E list \in PreviousMonthLists : LoadPreviousExpenses(list)

SpecCarryDialog == InitCarryDialog /\ [][NextCarryDialog]_vars

\* the balance page: useBalances under the handlers of BalanceTracker
InitBalances ==
    /\ InitBudget({[t \in TableNames |-> {}]})
    /\ InitBalance({[id |-> "acc1", initial_balance |-> 12000, monthly_deduction |-> 1000,
                     start_month |-> Jan2025]}, {Mar2025}, {<<>>})
    /\ InitMonth({Jan2025})
    /\ InitDialog({<<>>})
    /\ InitAccounts(InitialBalanceStores)
    /\ InitPeer({NoPeer})

NextBalances ==
    \/ \E data \in AccountForms : AddAccountCalled(data)
    \/ \E id \in ShownAccountIds, data \in AccountForms : UpdateAccountCalled(id, data)
    \/ \E id \in ShownAccountIds : DeleteAccountCalled(id)
    \/ \E p \in 1..Len(balanceCalls) : AccountInserted(p)
    \/ \E p \in 1..Len(balanceCalls) : AccountUpdated(p)
    \/ \E p \in 1..Len(balanceCalls), ok \in BOOLEAN : HistoryDeleted(p, ok)
    \/ \E p \in 1..Len(balanceCalls) : AccountDeleted(p)
    \/ \E p \in 1..Len(balanceCalls) : BalanceWriteFails(p)
    \/ \E p \in 1..Len(balanceCalls) : BalancesAccountsFetched(p)
    \/ \E p \in 1..Len(balanceCalls) : BalancesHistoryFetched(p)
    \/ \E p \in 1..Len(balanceCalls) : BalancesFetchFails(p)

SpecBalances == InitBalances /\ [][NextBalances]_vars

\* the budget page of one month: the nine operations and the manual carry-over
InitMutations ==
    /\ InitBudget(MutationStores)
    /\ InitBalance({[id |-> "acc1", initial_balance |-> 12000, monthly_deduction |-> 1000,
                     start_month |-> Jan2025]}, {Mar2025}, {<<>>})
    /\ InitMonth({Jan2025})
    /\ InitDialog({<<>>})
    /\ InitAccounts({EmptyBalanceStore})
    /\ InitPeer({NoPeer})

NextMutations ==
    \/ addIncome(IncomeForm)
    \/ \E id \in IdsIn(incomes) : deleteIncome(id)
    \/ \E id \in IdsIn(incomes) : updateIncome(id, IncomeForm)
    \/ addTax(TaxForm)
    \/ \E id \in IdsIn(taxes) : deleteTax(id)
    \/ \E id \in IdsIn(taxes) : updateTax(id, TaxForm)
    \/ addExpense(ExpenseForm)
    \/ \E id \in IdsIn(expenses) : deleteExpense(id)
    \/ \E id \in IdsIn(expenses) : updateExpense(id, ExpenseForm)
    \/ \E chosen \in SUBSET db[TABLES.EXPENSES] : CarryOverExpensesCalled(chosen)
    \/ \E p \in 1..Len(calls) : MutationWritten(p)
    \/ \E p \in 1..Len(calls) : MutationFails(p)
    \/ \E p \in 1..Len(calls) : FetchDataFetched(p)
    \/ \E p \in 1..Len(calls) : FetchDataFails(p)
    \/ \E p \in 1..Len(calls) : CarryFetched(p)
    \/ \E p \in 1..Len(calls) : CarryFetchFails(p)
    \/ \E p \in 1..Len(calls) : CarryInserted(p)
    \/ \E p \in 1..Len(calls) : CarryInsertFails(p)
    \/ \E p \in 1..Len(calls), unnecessaryOk \in BOOLEAN : CarryRefetched(p, unnecessaryOk)
    \/ \E p \in 1..Len(calls) : CarryRefetchFails(p)
    \/ \E p \in 1..Len(calls) : CarryOverExpensesInserted(p)
    \/ \E p \in 1..Len(calls) : CarryOverExpensesFails(p)
    \/ \E p \in 1..Len(calls), outcome \in RefetchOutcomes :
          CarryOverExpensesRefetched(p, outcome)

SpecMutations == InitMutations /\ [][NextMutations]_vars

\* two sessions opening on the same month of one store
InitSessions ==
    /\ InitBudget(SessionStores)
    /\ InitBalance({[id |-> "acc1", initial_balance |-> 12000, monthly_deduction |-> 1000,
                     start_month |-> Jan2025]}, {Mar2025}, {<<>>})
    /\ InitMonth({Jan2025})
    /\ InitDialog({<<>>})
    /\ InitAccounts({EmptyBalanceStore})
    /\ InitPeer({NewPeer(selectedMonth)})

NextSessions ==
    \/ \E p \in 1..Len(calls) : FetchDataFetched(p)
    \/ \E p \in 1..Len(calls) : FetchDataFails(p)
    \/ \E p \in 1..Len(calls) : CarryFetched(p)
    \/ \E p \in 1..Len(calls) : CarryFetchFails(p)
    \/ \E p \in 1..Len(calls) : CarryInserted(p)
    \/ \E p \in 1..Len(calls) : CarryInsertFails(p)
    \/ \E p \in 1..Len(calls), unnecessaryOk \in BOOLEAN : CarryRefetched(p, unnecessaryOk)
    \/ \E p \in 1..Len(calls) : CarryRefetchFails(p)
    \/ PeerFetched
    \/ PeerCarryFetched
    \/ PeerCarryInserted
    \/ PeerCarryRefetched
    \/ PeerRequestFails

SpecSessions == InitSessions /\ [][NextSessions]_vars

----------------------------------------------------------------------------
(* The loads of one session whose store requests all return *)

InitLoads ==
    /\ InitBudget(SessionStores)
    /\ InitBalance({[id |-> "acc1", initial_balance |-> 12000, monthly_deduction |-> 1000,
                     start_month |-> Jan2025]}, {Mar2025}, {<<>>})
    /\ InitMonth({Jan2025})
    /\ InitDialog({<<>>})
    /\ InitAccounts({EmptyBalanceStore})
    /\ InitPeer({NoPeer})

\* the request call p awaits returns, with data or with an error
StoreReturns(p) ==
    \/ FetchDataFetched(p)
    \/ FetchDataFails(p)
    \/ CarryFetched(p)
    \/ CarryFetchFails(p)
    \/ CarryInserted(p)
    \/ CarryInsertFails(p)
    \/ \E unnecessaryOk \in BOOLEAN : CarryRefetched(p, unnecessaryOk)
    \/ CarryRefetchFails(p)

NextLoads ==
    \/ \E m \in Months : SelectMonth(m)
    \/ \E p \in 1..Len(calls) : FetchDataFetched(p)
    \/ \E p \in 1..Len(calls) : FetchDataFails(p)
    \/ \E p \in 1..Len(calls) : CarryFetched(p)
    \/ \E p \in 1..Len(calls) : CarryFetchFails(p)
    \/ \E p \in 1..Len(calls) : CarryInserted(p)
    \/ \E p \in 1..Len(calls) : CarryInsertFails(p)
    \/ \E p \in 1..Len(calls), unnecessaryOk \in BOOLEAN : CarryRefetched(p, unnecessaryOk)
    \/ \E p \in 1..Len(calls) : CarryRefetchFails(p)

\* every request of every call is answered in the end
SpecLoads == InitLoads /\ [][NextLoads]_vars /\ \A p \in 1..MaxCalls : WF_vars(StoreReturns(p))

----------------------------------------------------------------------------
(* Vocabulary of the properties *)

Nov2024 == <<"2", "0", "2", "4", "-", "1", "1">>

\* the calendar predecessor of the months of the model, written out
PredecessorOf(m) == CASE m = Jan2025 -> Dec2024 [] m = Dec2024 -> Nov2024

PrimaryTables == {TABLES.INCOMES, TABLES.TAXES, TABLES.EXPENSES}

RowsOf(store, table, month) == {r \in store[table] : r.month = month}

\* a row without its identity, its timestamp and its month
Content(r) == [f \in DOMAIN r \ {"id", "created_at", "month"} |-> r[f]]

\* a row without its identity and its timestamp
ContentAndMonth(r) == [f \in DOMAIN r \ {"id", "created_at"} |-> r[f]]

\* A and B hold the same contents, each as often
SameContent(A, B) ==
    \A c \in {Content(r) : r \in A \cup B} :
        Cardinality({r \in A : Content(r) = c}) = Cardinality({r \in B : Content(r) = c})

\* A and B hold the same contents in the same months, each as often
SameContentAndMonth(A, B) ==
    \A c \in {ContentAndMonth(r) : r \in A \cup B} :
        Cardinality({r \in A : ContentAndMonth(r) = c})
            = Cardinality({r \in B : ContentAndMonth(r) = c})

SeqRange(s) == {s[i] : i \in 1..Len(s)}

CallIds == 1..Len(calls)

FetchCalls == {p \in CallIds : calls[p].op = "fetchData"}

ManualCalls == {p \in CallIds : calls[p].op = "carryOverExpenses"}

ManualIds == UNION {calls[p].inserted : p \in ManualCalls}

InsertedRows(p, table) == {r \in db[table] : r.id \in calls[p].inserted}

FoundPrimary(c) == c.found.incomes + c.found.taxes + c.found.expenses

\* no call of the session overlapped another one
SequentialUse == \A p \in CallIds : ~calls[p].concurrent

----------------------------------------------------------------------------
(* C1: when the month the session opens with has no Income, Tax or Expense row
   and no store request fails, exactly one automatic carry-forward runs for it,
   and the month ends with exactly one new row per Income, Tax and Expense row
   of the previous month, equal to its source in every field except id,
   created_at and month.  The opening load runs alone, or is overlapped by
   other loads only; rows of later manual carry-overs are not counted. *)
C1_FullMonthCarryCopiesOnce ==
    LET m  == calls[1].month
        pm == PredecessorOf(m)
        carries == {p \in FetchCalls : calls[p].month = m /\ calls[p].carry # "none"}
    IN  (/\ failures = 0
         /\ \A p \in FetchCalls : calls[p].month = m => calls[p].pc = "done"
         /\ ~calls[1].concurrent \/ \A k \in ManualCalls : calls[k].month # m
         /\ \A t \in PrimaryTables : RowsOf(db0, t, m) = {})
        => /\ Cardinality(carries) = 1
           /\ \A p \in carries :
                /\ calls[p].carry = "true"
                /\ Cardinality(calls[p].inserted)
                     = Cardinality(RowsOf(db0, TABLES.INCOMES, pm))
                       + Cardinality(RowsOf(db0, TABLES.TAXES, pm))
                       + Cardinality(RowsOf(db0, TABLES.EXPENSES, pm))
                /\ \A t \in PrimaryTables :
                     LET new == {r \in RowsOf(db, t, m) : r.id \notin ManualIds}
                     IN  /\ new = InsertedRows(p, t)
                         /\ \A r \in new : r.id >= FirstFreeId
                         /\ SameContent(new, RowsOf(db0, t, pm))

C1_Witness ==
    /\ calls[1].pc = "done" /\ calls[1].carry = "true" /\ failures = 0
    /\ Cardinality(calls[1].inserted) = 4
    /\ RowsOf(db0, TABLES.EXPENSES, PredecessorOf(calls[1].month)) = {Expense1, Expense2}
    /\ Cardinality(RowsOf(db, TABLES.EXPENSES, calls[1].month)) = 2

(* C2: a load that finds no Income, Tax or Expense row in its month while the
   previous month has none either inserts nothing; when no other call runs
   beside it, it ends with empty lists and with loading and isCarryingOver
   off. *)
C2_NoOpWhenPreviousEmpty ==
    \A p \in FetchCalls :
        LET c == calls[p]
        IN  (/\ c.pc = "done" /\ c.failedAt = "none"
             /\ c.found # NotFetched /\ FoundPrimary(c) = 0
             /\ \A t \in PrimaryTables : RowsOf(db, t, PredecessorOf(c.month)) = {})
            => /\ c.inserted = {}
               /\ (p = Len(calls) /\ ~c.concurrent)
                    => /\ incomes = <<>> /\ taxes = <<>> /\ expenses = <<>>
                       /\ ~loading /\ ~isCarryingOver
                       /\ \A t \in PrimaryTables : RowsOf(db, t, c.month) = {}

C2_Witness ==
    \E p \in FetchCalls :
        /\ p = Len(calls) /\ ~calls[p].concurrent
        /\ calls[p].pc = "done" /\ calls[p].carry = "true" /\ calls[p].inserted = {}
        /\ calls[p].month = Dec2024
        /\ db[TABLES.INCOMES] = {Income2}
        /\ incomes = <<>> /\ ~loading

(* C3 as stated: a load that finds at least one Income, Tax, Expense or
   Discretionary row in its month inserts no row. *)
C3_PopulatedAnyKind ==
    \A p \in FetchCalls :
        LET c == calls[p]
        IN  (c.found # NotFetched /\ FoundPrimary(c) + c.found.unnecessary_expenses > 0)
            => c.inserted = {}

(* C3 amended: a load that finds at least one Income, Tax or Expense row in
   its month starts no carry-forward, inserts no row and ends at once. *)
C3_PopulatedPrimary ==
    \A p \in FetchCalls :
        LET c == calls[p]
        IN  (c.found # NotFetched /\ FoundPrimary(c) > 0)
            => c.carry = "none" /\ c.inserted = {} /\ c.pc = "done"

C3_Witness ==
    \E p \in FetchCalls :
        /\ calls[p].found # NotFetched /\ calls[p].found.incomes = 1
        /\ calls[p].month = Jan2025 /\ calls[p].pc = "done"
        /\ Jan2025 \notin carriedOverMonths
        /\ RowsOf(db, TABLES.EXPENSES, Dec2024) # {}
        /\ ~loading

(* C4: every row that carryOverExpenses inserts equals its source expense in
   every field except id, created_at and month. *)
C4_ManualCarryPreservesFields ==
    \A p \in ManualCalls :
        calls[p].inserted # {}
            => SameContent(InsertedRows(p, TABLES.EXPENSES), SeqRange(calls[p].source.expenses))

(* C5: two successful calls of carryOverExpenses with the same source expenses
   insert twice as many new rows as there are sources, and the two batches
   agree in every field except id and created_at. *)
C5_TwiceYieldsTwoBatches ==
    \A p, q \in ManualCalls :
        (/\ p < q
         /\ calls[p].ret = "true" /\ calls[q].ret = "true"
         /\ calls[p].month = calls[q].month
         /\ calls[p].source.expenses = calls[q].source.expenses)
        => LET n == Len(calls[p].source.expenses)
               P == InsertedRows(p, TABLES.EXPENSES)
               Q == InsertedRows(q, TABLES.EXPENSES)
           IN  /\ Cardinality(calls[p].inserted \cup calls[q].inserted) = 2 * n
               /\ Cardinality(P \cup Q) = 2 * n
               /\ \A r \in P \cup Q : r.month = calls[p].month /\ r.id >= FirstFreeId
               /\ SameContentAndMonth(P, Q)

C5_Witness ==
    \E p, q \in ManualCalls :
        /\ p < q
        /\ calls[p].ret = "true" /\ calls[q].ret = "true"
        /\ calls[p].source.expenses = <<Expense1, Expense2>>
        /\ calls[q].source.expenses = <<Expense1, Expense2>>
        /\ Cardinality(RowsOf(db, TABLES.EXPENSES, Jan2025)) = 4

(* C6: carry-over never touches its source: every row the store held is still
   there unchanged, and every row added was inserted by a call into that
   call's own month. *)
C6_SourceUntouched ==
    \A t \in TableNames :
        /\ db0[t] \subseteq db[t]
        /\ \A r \in db[t] \ db0[t] :
              \E p \in CallIds : r.id \in calls[p].inserted /\ r.month = calls[p].month
        /\ \A r \in db[t] \ db0[t] : \A old \in db0[t] : r.id # old.id

C6_Witness ==
    /\ \E p \in FetchCalls : Cardinality(calls[p].inserted) = 4 /\ calls[p].carry = "true"
    /\ \E p \in ManualCalls : calls[p].inserted # {}
    /\ \E p \in ManualCalls : calls[p].failedAt = "insert_expenses"
    /\ db0[TABLES.EXPENSES] = {Expense1, Expense2}
    /\ RowsOf(db, TABLES.EXPENSES, Dec2024) = {Expense1, Expense2}

(* C7: after an automatic carry-forward into a month has failed, a later load
   of that month, with no further failure, leaves the month with exactly one
   copy of every Income, Tax and Expense row of the previous month. *)
C7_RetryCompletes ==
    \A p, q \in FetchCalls :
        (/\ p < q
         /\ SequentialUse
         /\ calls[p].carry = "false"
         /\ calls[q].month = calls[p].month /\ calls[q].pc = "done"
         /\ failures = 1
         /\ \A k \in ManualCalls : calls[k].month # calls[p].month)
        => \A t \in PrimaryTables :
               SameContent(RowsOf(db, t, calls[p].month),
                           RowsOf(db, t, PredecessorOf(calls[p].month)))

(* C8: a load whose automatic carry-forward failed ends with a non-null
   error. *)
C8_FailedCarrySurfaced ==
    LET p == Len(calls)
    IN  (calls[p].op = "fetchData" /\ calls[p].pc = "done" /\ calls[p].carry = "false")
        => error # Null

----------------------------------------------------------------------------
(* Properties of the schedule projection, under SpecProjection *)

\* the position of a YYYY-MM key on the calendar, read off its digits
MonthOrdinal(k) ==
    (DigitVal(k[1]) * 1000 + DigitVal(k[2]) * 100 + DigitVal(k[3]) * 10 + DigitVal(k[4])) * 12
    + DigitVal(k[6]) * 10 + DigitVal(k[7])

ProjectionMonths == CurrentBalanceMonths \cup MonthOptionValues \cup StartMonths

\* the schedule balance the specification gives
ScheduleBalance(acc, m) ==
    LET elapsed == MonthOrdinal(m) - MonthOrdinal(acc.start_month)
        left == acc.initial_balance - acc.monthly_deduction * (elapsed + 1)
    IN  IF elapsed < 0 THEN acc.initial_balance ELSE IF left < 0 THEN 0 ELSE left

(* C9: calculateCurrentBalance is the initial balance for a month before the
   start month, and otherwise the initial balance less one deduction per month
   from the start month to the month asked, both included, and not less
   than 0. *)
C9_ScheduleProjection ==
    /\ projectedBalance = ScheduleBalance(account, selectedViewMonth)
    /\ \A m \in ProjectionMonths : getBalanceForMonth(account, m) = ScheduleBalance(account, m)

C9_Witness ==
    /\ account.initial_balance = 12000 /\ account.monthly_deduction = 1000
    /\ account.start_month = Jan2025
    /\ selectedViewMonth = Mar2025
    /\ projectedBalance = 9000

(* C10: the schedule balance never rises as the month advances, the month
   before the start month and the turn of the year included, and is never
   below 0. *)
C10_ScheduleNonIncreasing ==
    /\ projectedBalance >= 0
    /\ \A m1, m2 \in ProjectionMonths :
          MonthOrdinal(m1) <= MonthOrdinal(m2)
              => /\ getBalanceForMonth(account, m2) <= getBalanceForMonth(account, m1)
                 /\ getBalanceForMonth(account, m2) >= 0

C10_Witness ==
    /\ account.start_month = Jan2026 /\ account.initial_balance = 1000
    /\ account.monthly_deduction = 400
    /\ selectedViewMonth \in MonthOptionValues
    /\ MonthOrdinal(selectedViewMonth) = MonthOrdinal(Jan2026) + 2
    /\ projectedBalance = 0
    /\ getBalanceForMonth(account, getBalanceMonthOptions[1]) = 1000
    /\ getBalanceForMonth(account, Jan2026) = 600

----------------------------------------------------------------------------
(* Properties of the account cards, under SpecCards *)

\* the sum of the amounts of the elements of a list at the given positions
RECURSIVE AmountAt(_, _)
AmountAt(list, positions) ==
    IF positions = {} THEN 0
    ELSE LET i == CHOOSE j \in positions : TRUE
         IN  list[i].amount + AmountAt(list, positions \ {i})

\* the positions of the expenses that count against the account up to month m
CountedPositions(list, acc, m) ==
    {i \in 1..Len(list) : /\ list[i].balance_account_id = acc.id
                          /\ list[i].is_paid = TRUE
                          /\ MonthOrdinal(list[i].month) <= MonthOrdinal(m)}

(* C11: the actual balance of the account for the month viewed is the initial
   balance less the amounts of the expenses that are linked to the account,
   paid, and of a month not after the month viewed, and not less than 0; with
   no expenses it is the initial balance, and dropping the unpaid, unlinked
   and later expenses from the list does not change it. *)
C11_ActualBalance ==
    LET counted == CountedPositions(paidExpenses, account, selectedViewMonth)
        S == AmountAt(paidExpenses, counted)
        kept == SelectSeq(paidExpenses, LAMBDA e : \E i \in counted : paidExpenses[i] = e)
    IN  /\ actualBalance = (IF account.initial_balance - S < 0 THEN 0
                            ELSE account.initial_balance - S)
        /\ paidExpenses = <<>> => actualBalance = account.initial_balance
        /\ getActualBalanceForMonth(kept, account, selectedViewMonth) = actualBalance

C11_Witness ==
    /\ account.initial_balance = 12000
    /\ selectedViewMonth = Jan2026
    /\ Len(paidExpenses) = 3
    /\ {paidExpenses[i].id : i \in 1..3} = {2, 3, 6}
    /\ actualBalance = 11500

(* C12: the progress percentage of an account card is the part of the initial
   balance that is paid off, times 100; it is 0 for an account with initial
   balance 0 and a number from 0 to 100 for every account. *)
C12_ProgressDefined ==
    /\ progressPercentage.den # 0
    /\ progressPercentage.num >= 0
    /\ progressPercentage.num <= 100 * progressPercentage.den
    /\ account.initial_balance = 0 => progressPercentage.num = 0
    /\ account.initial_balance # 0 =>
          progressPercentage.num * account.initial_balance
              = (account.initial_balance - actualBalance) * 100 * progressPercentage.den

----------------------------------------------------------------------------
(* Properties of the month utilities, under SpecMonths *)

\* YYYY-MM with a month from 01 to 12
WellFormed(k) ==
    /\ Len(k) = 7
    /\ k[5] = "-"
    /\ \A i \in {1, 2, 3, 4, 6, 7} : k[i] \in Digits
    /\ DigitVal(k[6]) * 10 + DigitVal(k[7]) \in 1..12

YearOf(k) == DigitVal(k[1]) * 1000 + DigitVal(k[2]) * 100 + DigitVal(k[3]) * 10 + DigitVal(k[4])

(* C13: for a well-formed month key, getPreviousMonth gives a well-formed,
   zero-padded key that is the month before on the calendar, one month
   before as calculateCurrentBalance counts months, and December of the year
   before for a January. *)
C13_Predecessor ==
    WellFormed(monthKey)
        => /\ WellFormed(previousOfKey)
           /\ MonthOrdinal(previousOfKey) = MonthOrdinal(monthKey) - 1
           /\ monthsElapsed(previousOfKey, monthKey) = 1
           /\ (monthKey[6] = "0" /\ monthKey[7] = "1")
                 => /\ YearOf(previousOfKey) = YearOf(monthKey) - 1
                    /\ SubSeq(previousOfKey, 5, 7) = <<"-", "1", "2">>

C13_Witness ==
    /\ monthKey = <<"2", "0", "0", "0", "-", "0", "1">>
    /\ previousOfKey = <<"1", "9", "9", "9", "-", "1", "2">>

(* C14: for text that is not a well-formed month key, getPreviousMonth and
   calculateCurrentBalance give a FormatError: no month key and no balance
   comes out of them. *)
FormatError == <<"FormatError">>

C14_MalformedRejected ==
    ~WellFormed(monthKey) => previousOfKey = FormatError /\ keyBalance \notin Int

----------------------------------------------------------------------------
(* Properties of the summaries, under SpecSummary *)

Members == {"Nikkie", "Hein"}

SummaryFields ==
    {"grossIncome", "otherIncome", "totalIncome", "totalTaxes", "netIncome",
     "totalExpenses", "totalUnnecessaryExpenses", "remainingBalance"}

\* the positions of the rows of a list owned by a member
OwnedBy(list, member) == {i \in 1..Len(list) : list[i].member = member}

(* C15: every number of the household summary is the number of Nikkie's
   summary plus the number of Hein's summary, every row shown is owned by
   exactly one of the two, and the household totals are the totals over all
   rows shown. *)
C15_HouseholdIsSumOfMembers ==
    /\ \A f \in SummaryFields : summary[f] = summary.nikkieSummary[f] + summary.heinSummary[f]
    /\ \A list \in {incomes, taxes, expenses, unnecessaryExpenses} :
          /\ OwnedBy(list, "Nikkie") \cup OwnedBy(list, "Hein") = 1..Len(list)
          /\ OwnedBy(list, "Nikkie") \cap OwnedBy(list, "Hein") = {}
    /\ summary.totalIncome = AmountAt(incomes, 1..Len(incomes))
    /\ summary.totalTaxes = AmountAt(taxes, 1..Len(taxes))
    /\ summary.totalExpenses = AmountAt(expenses, 1..Len(expenses))
    /\ summary.totalUnnecessaryExpenses
          = AmountAt(unnecessaryExpenses, 1..Len(unnecessaryExpenses))

C15_Witness ==
    /\ Len(incomes) = 3 /\ Len(taxes) = 2 /\ Len(expenses) = 3 /\ Len(unnecessaryExpenses) = 2
    /\ summary.nikkieSummary.remainingBalance = 15170
    /\ summary.heinSummary.remainingBalance = 7650
    /\ summary.remainingBalance = 22820

\* the summary of a member in the household summary
SummaryOf(member) == IF member = "Nikkie" THEN summary.nikkieSummary ELSE summary.heinSummary

(* C16: for each member, grossIncome is the sum of the member's Salary
   incomes, otherIncome the sum of the Other incomes, netIncome is
   grossIncome - totalTaxes + otherIncome, totalExpenses is the sum of the
   stored amounts of the member's expenses with nothing added for VAT, and
   remainingBalance is netIncome - totalExpenses - totalUnnecessaryExpenses. *)
C16_MemberFormulas ==
    \A member \in Members :
        LET s == SummaryOf(member)
            own == OwnedBy(incomes, member)
        IN  /\ s.grossIncome
                  = AmountAt(incomes, {i \in own : incomes[i].income_type = "Salary"})
            /\ s.otherIncome
                  = AmountAt(incomes, {i \in own : incomes[i].income_type = "Other"})
            /\ s.totalTaxes = AmountAt(taxes, OwnedBy(taxes, member))
            /\ s.totalExpenses = AmountAt(expenses, OwnedBy(expenses, member))
            /\ s.totalUnnecessaryExpenses
                  = AmountAt(unnecessaryExpenses, OwnedBy(unnecessaryExpenses, member))
            /\ s.netIncome = s.grossIncome - s.totalTaxes + s.otherIncome
            /\ s.remainingBalance
                  = s.netIncome - s.totalExpenses - s.totalUnnecessaryExpenses

\* salary 20000, tax 3000 and one expense of 1500
C16_Witness ==
    /\ Len(incomes) = 1 /\ incomes[1].amount = 20000 /\ incomes[1].income_type = "Salary"
    /\ Len(taxes) = 1 /\ taxes[1].amount = 3000 /\ taxes[1].member = "Nikkie"
    /\ Len(expenses) = 1 /\ expenses[1].amount = 1500
    /\ unnecessaryExpenses = <<>>
    /\ summary.nikkieSummary.grossIncome = 20000
    /\ summary.nikkieSummary.netIncome = 17000
    /\ summary.nikkieSummary.totalExpenses = 1500
    /\ summary.nikkieSummary.remainingBalance = 15500

----------------------------------------------------------------------------
(* Properties of the carry-over dialog, under SpecCarryDialog *)

\* the ids of the expenses of the previous month flagged recurring
RecurringIds == {previousMonthExpenses[i].id :
                    i \in {j \in 1..Len(previousMonthExpenses) :
                              previousMonthExpenses[j].is_recurring = TRUE}}

\* the selection after one more press of the Select All / Deselect All button
AfterToggleAll(sel) ==
    ToggleAllResult(Cardinality(sel) < Len(previousMonthExpenses), previousMonthExpenses)

(* C18: right after the dialog opens the selection is the set of the ids of
   the recurring expenses of the previous month; the selection is always a
   set of ids of expenses of the previous month; from every selection of the
   open dialog the empty and the full selection are within two presses of
   the Select All button; and confirming an empty selection does not call
   onCarryOver, which is never handed an empty set, so nothing is inserted. *)
C18_DialogSelection ==
    /\ lastHandler = "openDialog" => showDialog /\ selectedExpenses = RecurringIds
    /\ selectedExpenses \subseteq IdsOf(previousMonthExpenses)
    /\ ~showDialog => selectedExpenses = {}
    /\ showDialog =>
          /\ IdsOf(previousMonthExpenses)
                \in {AfterToggleAll(selectedExpenses), AfterToggleAll(AfterToggleAll(selectedExpenses))}
          /\ {} \in {AfterToggleAll(selectedExpenses), AfterToggleAll(AfterToggleAll(selectedExpenses))}
    /\ \A i \in 1..Len(carryRequests) : carryRequests[i] # {}
    /\ (lastHandler = "handleCarryOver" /\ selectedExpenses = {}) => ~submitting

\* the confirm handler has run on an empty selection of an open dialog that
\* lists recurring and other expenses
C18_Witness ==
    /\ Len(previousMonthExpenses) = 3
    /\ showDialog
    /\ selectedExpenses = {}
    /\ lastHandler = "handleCarryOver"
    /\ carryRequests = <<>>

----------------------------------------------------------------------------
(* Properties of useBalances, under SpecBalances *)

BalanceCallIds == 1..Len(balanceCalls)

\* the deleteAccount calls that returned to handleDelete without throwing
SucceededDeletes ==
    {p \in BalanceCallIds : /\ balanceCalls[p].op = "deleteAccount"
                            /\ balanceCalls[p].pc = "done"
                            /\ balanceCalls[p].ret = "void"}

\* an expense row but for its reference to an account
WithoutAccount(e) == [f \in DOMAIN e \ {"balance_account_id"} |-> e[f]]

(* C17: once deleteAccount(id) has returned without error, the account row
   and every balance_history row of the account are gone, every expense that
   referenced the account is still stored with every other field unchanged
   and with balance_account_id null, and no expense of the store references
   an account that is not stored. *)
C17_DeleteKeepsExpenses ==
    /\ \A p \in SucceededDeletes :
          LET id == balanceCalls[p].id
          IN  /\ \A a \in balanceStore.balance_accounts : a.id # id
              /\ \A h \in balanceStore.balance_history : h.account_id # id
              /\ \A e0 \in balanceStore0.expenses :
                    e0.balance_account_id = id
                        => \E e \in balanceStore.expenses :
                              /\ e.id = e0.id
                              /\ WithoutAccount(e) = WithoutAccount(e0)
                              /\ e.balance_account_id = Null
    /\ Cardinality(balanceStore.expenses) = Cardinality(balanceStore0.expenses)
    /\ \A e \in balanceStore.expenses :
          e.balance_account_id \in {a.id : a \in balanceStore.balance_accounts} \cup {Null}

\* an account with history and four expenses was deleted although the delete
\* of its history had failed
C17_Witness ==
    \E p \in SucceededDeletes :
        /\ balanceCalls[p].id = "acc1"
        /\ balanceFailures = 1
        /\ History1 \in balanceStore0.balance_history
        /\ Cardinality({e \in balanceStore0.expenses : e.balance_account_id = "acc1"}) = 4
        /\ Cardinality({e \in balanceStore.expenses : e.balance_account_id = Null}) = 5
        /\ Account2 \in balanceStore.balance_accounts

(* C20: no operation of useBalances raises to the handler that awaits it: a
   store error ends addAccount, updateAccount and deleteAccount with a
   failure outcome, never with a thrown error. *)
C20_NoOperationRaises ==
    \A p \in BalanceCallIds : balanceCalls[p].ret # "thrown"

----------------------------------------------------------------------------
(* Properties of the nine operations and of carryOverExpenses, under SpecMutations *)

\* the store rejects the write of call p in this step
WriteRejected(p) ==
    /\ \/ IsMutation(p) /\ calls[p].pc = "write"
       \/ calls[p].op = "carryOverExpenses" /\ calls[p].pc = "insert_expenses"
    /\ calls'[p].pc = "done"
    /\ calls'[p].failedAt \in {"write", "insert_expenses"}

(* C19: in the step in which the store rejects the insert, update or delete
   of addIncome .. updateExpense or of carryOverExpenses, the operation
   returns false and the lists incomes, taxes, expenses and
   unnecessaryExpenses are left as they are; when no other call was in
   flight during the operation, they are the lists shown when it was called. *)
C19_FailedMutationKeepsLists ==
    [][\A p \in 1..Len(calls) :
          WriteRejected(p) =>
              /\ calls'[p].ret = "false"
              /\ Shown' = Shown
              /\ db' = db
              /\ (IsMutation(p) /\ ~calls[p].concurrent) => Shown' = calls[p].shown]_vars

\* an update of a shown expense was rejected with every list of the month
\* shown, and the lists are those shown when it was called
C19_Witness ==
    /\ incomes # <<>> /\ taxes # <<>> /\ expenses # <<>> /\ unnecessaryExpenses # <<>>
    /\ \E p \in 1..Len(calls) :
          /\ IsMutation(p)
          /\ calls[p].mutation = "updateExpense"
          /\ calls[p].failedAt = "write"
          /\ calls[p].ret = "false"
          /\ ~calls[p].concurrent
          /\ Shown = calls[p].shown

----------------------------------------------------------------------------
(* Properties of the guard set carriedOverMonths, under Spec *)

CarryPositions == {"carry_fetch", "insert_incomes", "insert_taxes", "insert_expenses", "refetch"}

\* the loads that are inside autoCarryForwardFromPreviousMonth for month m
Carrying(m) ==
    {p \in FetchCalls : calls[p].month = m /\ calls[p].pc \in CarryPositions}

\* the rows of month m that automatic carry-forwards inserted into table t
AutoCarried(t, m) ==
    {r \in db[t] : \E p \in FetchCalls : calls[p].month = m /\ r.id \in calls[p].inserted}

(* C21: the month enters carriedOverMonths in the step in which a load decides
   to carry forward, so among overlapping loads of one month at most one is
   inside autoCarryForwardFromPreviousMonth at a time, the month is in the
   guard set while it is, and the rows of the previous month are not inserted
   twice: the month holds at most one carried copy of each. *)
C21_GuardBeforeCopy ==
    \A m \in Months :
        /\ Cardinality(Carrying(m)) <= 1
        /\ Carrying(m) # {} => m \in carriedOverMonths
        /\ \A t \in PrimaryTables :
              \A c \in {Content(r) : r \in AutoCarried(t, m)} :
                  Cardinality({r \in AutoCarried(t, m) : Content(r) = c})
                      <= Cardinality({r \in RowsOf(db, t, PredecessorOf(m)) : Content(r) = c})

\* two overlapping loads of one month both found it empty; one of them carried
\* the rows forward and the other one did not
C21_Witness ==
    \E p, q \in FetchCalls :
        /\ p # q
        /\ calls[p].month = calls[q].month
        /\ calls[p].concurrent /\ calls[q].concurrent
        /\ calls[p].pc = "done" /\ calls[q].pc = "done"
        /\ FoundPrimary(calls[p]) = 0 /\ FoundPrimary(calls[q]) = 0
        /\ calls[p].carry = "true" /\ calls[p].inserted # {}
        /\ calls[q].carry = "none"

\* the tables whose insert comes before the position pos of the carry-forward
InsertedBefore(pos) ==
    CASE pos \in {"carry_fetch", "insert_incomes"} -> {}
      [] pos = "insert_taxes" -> {TABLES.INCOMES}
      [] pos = "insert_expenses" -> {TABLES.INCOMES, TABLES.TAXES}
      [] OTHER -> {TABLES.INCOMES, TABLES.TAXES, TABLES.EXPENSES}

\* how far the carry-forward of call c has come, or where it failed
CarryPosition(c) ==
    IF c.pc # "done" THEN c.pc ELSE IF c.carry = "false" THEN c.failedAt ELSE "refetch"

\* call p ends its carry-forward in this step, with result carry
CarryEnds(p, carry) == calls[p].carry = "running" /\ calls'[p].carry = carry

(* C22: a carry-forward inserts incomes, then taxes, then expenses: at every
   position the tables before it hold one stored row for each row of their
   batch and the tables from it on hold none of the call's rows, so a failed
   step ends the attempt, no later insert is made and the rows of the earlier
   steps stay stored.  The step in which the carry-forward fails takes the
   month out of carriedOverMonths; the step in which it ends without failure
   leaves the month in it. *)
C22_BestEffortCarry ==
    [][/\ \A p \in {q \in 1..Len(calls') : calls'[q].op = "fetchData"} :
            calls'[p].carry # "none"
                => \A t \in PrimaryTables :
                      LET stored == {r \in db'[t] : r.id \in calls'[p].inserted}
                      IN  IF t \in InsertedBefore(CarryPosition(calls'[p]))
                          THEN /\ Cardinality(stored) = Len(calls'[p].toInsert[t])
                               /\ SameContent(stored, SeqRange(calls'[p].source[t]))
                               /\ \A r \in stored : r.month = calls'[p].month
                          ELSE stored = {}
       /\ \A p \in FetchCalls :
            /\ CarryEnds(p, "false") => calls[p].month \notin carriedOverMonths'
            /\ CarryEnds(p, "true") => calls[p].month \in carriedOverMonths']_vars

\* a carry-forward failed at the insert of the expenses: the income and the tax
\* it inserted are stored, no expense is, and the month is out of the guard set
C22_Witness ==
    \E p \in FetchCalls :
        /\ calls[p].carry = "false" /\ calls[p].failedAt = "insert_expenses"
        /\ Cardinality(InsertedRows(p, TABLES.INCOMES)) = 1
        /\ Cardinality(InsertedRows(p, TABLES.TAXES)) = 1
        /\ Len(calls[p].toInsert.expenses) = 2
        /\ RowsOf(db, TABLES.EXPENSES, calls[p].month) = {}
        /\ calls[p].month \notin carriedOverMonths

----------------------------------------------------------------------------
(* Properties of the loads that follow a write, under SpecMutations *)

\* an automatic carry-forward into month m has ended without failure
CarriedWithoutFailure(m) ==
    \E p \in FetchCalls : calls[p].month = m /\ calls[p].carry = "true"

(* C23: once an automatic carry-forward into a month has ended without
   failure, whether it copied rows or found nothing to copy, no later step of
   the session starts a carry-forward for that month or inserts carried rows
   into it, also when the month has become empty again. *)
C23_NoSecondAutoCarry ==
    [][\A m \in Months :
          CarriedWithoutFailure(m)
              => /\ \A q \in 1..Len(calls) :
                       (calls[q].month = m /\ calls[q].op # "carryOverExpenses")
                           => /\ calls[q].carry = "none" => calls'[q].carry = "none"
                              /\ calls'[q].inserted = calls[q].inserted
                 /\ \A t \in PrimaryTables :
                       {r.id : r \in AutoCarried(t, m)'} \subseteq {r.id : r \in AutoCarried(t, m)}
                 /\ m \in carriedOverMonths']_vars

\* the income carried into the month was deleted, and the load that followed
\* found the month empty and did not carry forward again
C23_Witness ==
    \E p, q \in FetchCalls :
        /\ p < q
        /\ calls[p].month = calls[q].month
        /\ calls[p].carry = "true" /\ calls[p].inserted # {}
        /\ IsMutation(q) /\ calls[q].mutation = "deleteIncome"
        /\ calls[q].id \in calls[p].inserted
        /\ calls[q].pc = "done" /\ FoundPrimary(calls[q]) = 0
        /\ calls[q].carry = "none"
        /\ \A t \in PrimaryTables : RowsOf(db, t, calls[q].month) = {}
        /\ RowsOf(db, TABLES.INCOMES, PredecessorOf(calls[q].month)) # {}

\* the calls of deleteIncome, deleteTax and deleteExpense whose delete succeeded
SucceededRowDeletes ==
    {q \in CallIds : IsMutation(q) /\ calls[q].kind = "delete" /\ calls[q].op = "fetchData"}

(* C26: a delete never adds rows: the load that follows a successful
   deleteIncome, deleteTax or deleteExpense starts no carry-forward and
   inserts no row, also when the deleted row was the last Income, Tax or
   Expense row of the month and the month is not in carriedOverMonths. *)
C26_DeleteNeverAddsRows ==
    \A q \in SucceededRowDeletes :
        /\ calls[q].carry = "none"
        /\ calls[q].inserted = {}

----------------------------------------------------------------------------
(* Properties of two sessions on one store, under SpecSessions *)

\* twice as many rows of each content in A as in B
TwiceTheContent(A, B) ==
    \A c \in {Content(r) : r \in A \cup B} :
        Cardinality({r \in A : Content(r) = c}) = 2 * Cardinality({r \in B : Content(r) = c})

(* C24: the guard set is kept per session: a session whose opening load finds
   the month without Income, Tax and Expense rows starts the carry-forward
   whatever the other session has in its guard set, so both sessions can
   carry the same month forward; when both have done so without a failing
   request, the month holds two copies of every Income, Tax and Expense row
   of the previous month. *)
C24_GuardPerSession ==
    /\ (peer.pc # "fetch" /\ peer.error = Null /\ FoundPrimary(peer) = 0)
           => peer.carry # "none"
    /\ (calls[1].pc # "fetch" /\ error = Null /\ FoundPrimary(calls[1]) = 0)
           => calls[1].carry # "none"
    /\ (/\ failures = 0
        /\ calls[1].pc = "done" /\ calls[1].carry = "true"
        /\ peer.pc = "done" /\ peer.carry = "true")
           => \A t \in PrimaryTables :
                 TwiceTheContent(RowsOf(db, t, peer.month),
                                 RowsOf(db, t, PredecessorOf(peer.month)))

\* both sessions found the month empty and carried it forward: it holds two
\* copies of the income, of the tax and of each of the two expenses
C24_Witness ==
    /\ failures = 0
    /\ calls[1].pc = "done" /\ calls[1].carry = "true"
    /\ peer.pc = "done" /\ peer.carry = "true"
    /\ peer.month = calls[1].month
    /\ peer.month \in carriedOverMonths \cap peer.carriedOverMonths
    /\ Cardinality(calls[1].inserted) = 4 /\ Cardinality(peer.inserted) = 4
    /\ Cardinality(RowsOf(db, TABLES.INCOMES, peer.month)) = 2
    /\ Cardinality(RowsOf(db, TABLES.TAXES, peer.month)) = 2
    /\ Cardinality(RowsOf(db, TABLES.EXPENSES, peer.month)) = 4

----------------------------------------------------------------------------
(* Properties of a change of month during a load, under Spec *)

\* the selects of fetchData or of fetchDataWithoutAutoCarry of call p return
\* without error in this step
SelectsResolve(p) ==
    /\ calls[p].op = "fetchData"
    /\ calls[p].pc \in {"fetch", "refetch"}
    /\ calls'[p].pc # calls[p].pc
    /\ failures' = failures

(* C25: nothing cancels a load when the month selected changes: every row a
   carry-forward inserts has the month its load was started for, and when
   the selects of a load return, the rows of that month are put into
   incomes, taxes and expenses whatever month is selected by then. *)
C25_NoCancellation ==
    [][/\ \A p \in {q \in 1..Len(calls') : calls'[q].op = "fetchData"} :
            \A t \in PrimaryTables :
                \A r \in db'[t] : r.id \in calls'[p].inserted => r.month = calls'[p].month
       /\ \A p \in 1..Len(calls) :
            SelectsResolve(p)
                => /\ incomes' = SelectMonthRows(db, TABLES.INCOMES, calls[p].month, FALSE)
                   /\ taxes' = SelectMonthRows(db, TABLES.TAXES, calls[p].month, FALSE)
                   /\ expenses' = SelectMonthRows(db, TABLES.EXPENSES, calls[p].month, FALSE)]_vars

\* December was selected while the load of January was in flight; the load of
\* January carried forward into January and its rows are shown, with loading
\* off and December selected
C25_Witness ==
    /\ selectedMonth = Dec2024
    /\ ~loading /\ ~isCarryingOver
    /\ \A p \in CallIds : calls[p].pc = "done"
    /\ calls[1].month = Jan2025 /\ calls[1].concurrent
    /\ calls[1].carry = "true" /\ calls[1].inserted # {}
    /\ incomes # <<>> /\ expenses # <<>>
    /\ \A i \in 1..Len(incomes) : incomes[i].month = Jan2025
    /\ \A i \in 1..Len(taxes) : taxes[i].month = Jan2025
    /\ \A i \in 1..Len(expenses) : expenses[i].month = Jan2025
    /\ Len(calls) >= 2 /\ calls[2].month = Dec2024

----------------------------------------------------------------------------
(* Properties of getMonthsRemaining, under SpecProjection *)

\* the key of the month r months after month m
MonthAfter(m, r) ==
    LET ordinal == MonthOrdinal(m) - 1 + r
    IN  FormatYearMonth(MakeDate(ordinal \div 12, ordinal % 12))

(* C27: for an account with a monthly deduction above 0, the schedule balance
   of the month that lies getMonthsRemaining months after the month viewed is
   0; for a monthly deduction of 0 getMonthsRemaining is Infinity. *)
C27_MonthsRemainingReachesZero ==
    LET r == getMonthsRemaining(account, selectedViewMonth)
    IN  IF account.monthly_deduction > 0
        THEN getBalanceForMonth(account, MonthAfter(selectedViewMonth, r)) = 0
        ELSE r = Infinity

----------------------------------------------------------------------------
(* The carried rows and the actual balance, under Spec *)

\* the expenses the balance page is given: the stored expense rows of every month
paidExpensesOf(store) == ById(store[TABLES.EXPENSES])

\* accounts the stored expenses are linked to, and one they are not linked to
BalancePageAccounts == CardAccounts \cup {[a EXCEPT !.id = "acc2"] : a \in CardAccounts}

\* months before, at and after the months loaded
BalancePageMonths == {Nov2024, Dec2024, Jan2025, Mar2025}

\* load p inserts the expenses of its automatic carry-forward in this step
ExpensesCarried(p) ==
    /\ calls[p].op = "fetchData"
    /\ calls[p].pc = "insert_expenses"
    /\ calls'[p].pc = "refetch"

\* the summed amounts of the paid expenses of month m linked to the account
PaidLinkedIn(store, m, accountId) ==
    SumAmount(SelectSeq(ById(RowsOf(store, TABLES.EXPENSES, m)),
                        LAMBDA e : e.is_paid /\ e.balance_account_id = accountId))

(* C28: the step in which an automatic carry-forward into month m inserts its
   expenses lowers the actual balance of every account, at every month from m
   on, by the summed amounts of the paid expenses of the previous month that
   are linked to the account, never below 0; the actual balance at the months
   before m stays what it was, and so do the account rows the schedule balance
   is computed from. *)
C28_CarryFeedsActualBalance ==
    [][\A p \in FetchCalls :
          ExpensesCarried(p)
              => /\ UNCHANGED accountVars
                 /\ \A acc \in BalancePageAccounts, k \in BalancePageMonths :
                       LET m == calls[p].month
                           before == paidExpensesOf(db)
                           after == paidExpensesOf(db')
                           carried == PaidLinkedIn(db, PredecessorOf(m), acc.id)
                       IN  getActualBalanceForMonth(after, acc, k)
                               = IF StringLeq(m, k)
                                 THEN Max(0, acc.initial_balance
                                               - getTotalPaidUpToMonth(before, acc.id, k)
                                               - carried)
                                 ELSE getActualBalanceForMonth(before, acc, k)]_vars

\* December's paid bond payment was carried into January: the account of 12000
\* stands at 10500 in December and at 9000 from January on, the account of 1000
\* at 0
C28_Witness ==
    \E p \in FetchCalls :
        /\ calls[p].month = Jan2025 /\ calls[p].pc = "done" /\ calls[p].carry = "true"
        /\ \E r \in InsertedRows(p, TABLES.EXPENSES) :
              r.is_paid /\ r.balance_account_id = "acc1"
        /\ LET paid == paidExpensesOf(db)
               big == [id |-> "acc1", initial_balance |-> 12000, monthly_deduction |-> 1000,
                       start_month |-> Jan2026]
               small == [big EXCEPT !.initial_balance = 1000]
           IN  /\ getActualBalanceForMonth(paid, big, Dec2024) = 10500
               /\ getActualBalanceForMonth(paid, big, Jan2025) = 9000
               /\ getActualBalanceForMonth(paid, big, Mar2025) = 9000
               /\ getActualBalanceForMonth(paid, small, Jan2025) = 0

----------------------------------------------------------------------------
(* Every load settles, under SpecLoads *)

\* fetchData call p has started
LoadStarted(p) == p \in FetchCalls

\* fetchData call p has returned and neither flag is up
LoadSettled(p) ==
    /\ p \in FetchCalls
    /\ calls[p].pc = "done"
    /\ ~loading
    /\ ~isCarryingOver

\* the loads that are inside autoCarryForwardFromPreviousMonth
InsideCarry == {p \in FetchCalls : calls[p].pc \in CarryPositions}

(* C29: when every store request is answered in the end, every call of
   fetchData, whether it carries nothing forward, carries the previous month
   forward or fails, is followed by a state in which it has returned and
   loading and isCarryingOver are both false; and isCarryingOver is true only
   while some call is inside autoCarryForwardFromPreviousMonth. *)
C29_EveryLoadSettles ==
    /\ \A p \in 1..MaxCalls : LoadStarted(p) ~> LoadSettled(p)
    /\ [](isCarryingOver => InsideCarry # {})

\* a load that carried rows forward, one that failed inside the carry-forward
\* and one that found rows have all returned, and both flags are down
C29_Witness ==
    /\ ~loading /\ ~isCarryingOver /\ Running = {}
    /\ \E p \in FetchCalls : calls[p].carry = "true" /\ calls[p].inserted # {}
    /\ \E p \in FetchCalls : calls[p].carry = "false"
    /\ \E p \in FetchCalls : calls[p].carry = "none" /\ calls[p].failedAt = "none"

----------------------------------------------------------------------------
(* Bounds and order of the actual balance, under SpecCards *)

\* the months a card can be asked for
CardMonths == CurrentBalanceMonths \cup MonthOptionValues

\* the months the card compares: the month viewed and the months of the expenses
ComparedMonths ==
    {selectedViewMonth} \cup {paidExpenses[i].month : i \in 1..Len(paidExpenses)}

(* C30: for an account whose initial balance is not negative and a list of
   expenses whose amounts are not negative, the actual balance shown and the
   actual balance at every month are numbers from 0 to the initial balance,
   and the actual balance at a later month is never above the one at an
   earlier month; months are compared as strings, and the order of the strings
   between a month the card compares and any valid month key is the order of
   (year, month). *)
C30_ActualBoundedMonotone ==
    /\ (account.initial_balance >= 0 /\ \A i \in 1..Len(paidExpenses) : paidExpenses[i].amount >= 0)
          => /\ actualBalance \in 0..account.initial_balance
             /\ \A k \in CardMonths :
                   getActualBalanceForMonth(paidExpenses, account, k) \in 0..account.initial_balance
             /\ \A k1, k2 \in CardMonths :
                   MonthOrdinal(k1) <= MonthOrdinal(k2)
                       => getActualBalanceForMonth(paidExpenses, account, k2)
                              <= getActualBalanceForMonth(paidExpenses, account, k1)
    /\ \A a \in ValidMonthKeys, b \in ComparedMonths :
          /\ StringLeq(a, b) <=> MonthOrdinal(a) <= MonthOrdinal(b)
          /\ StringLeq(b, a) <=> MonthOrdinal(b) <= MonthOrdinal(a)

\* three payments of 300, 500 and 12000 against the account of 12000: the
\* balance falls from 11700 to 11200 and then stays at 0
C30_Witness ==
    /\ account.initial_balance = 12000
    /\ {paidExpenses[i].id : i \in 1..Len(paidExpenses)} = {1, 2, 6}
    /\ selectedViewMonth = Jun2026
    /\ actualBalance = 0
    /\ getActualBalanceForMonth(paidExpenses, account, Nov2025) = 11700
    /\ getActualBalanceForMonth(paidExpenses, account, Jan2026) = 11200
    /\ getActualBalanceForMonth(paidExpenses, account, Feb2027) = 0

====
